---- MODULE Spec2Model ----
(***************************************************************************)
(* Photo watermark tool: the placement resolver, the output naming policy, *)
(* the image watermark renderer and the batch export loop of the GUI       *)
(* (watermark_app.py), and the EXIF-date CLI (watermark_exif_date.py).     *)
(*                                                                         *)
(* Seven specifications share the variables:                               *)
(*   SpecPos   the placement functions applied to drawn inputs             *)
(*   SpecName  the output file name function applied to drawn inputs       *)
(*   SpecExif  extract_exif_date applied to drawn metadata                 *)
(*   SpecPix   _apply_image_watermark applied to drawn rasters             *)
(*   SpecCli   main of the CLI run on drawn input paths                    *)
(*   SpecDraw  the text renderers applied to drawn settings                *)
(*   Spec      the GUI: image list, preview, drag, presets, batch export   *)
(***************************************************************************)
EXTENDS Integers, Sequences, FiniteSets, TLC

VARIABLES
    \* ---- the GUI application (WatermarkApp)
    image_list,        \* QListWidget of ImageThumbnailItem: sequence of file ids
    current_row,       \* image_list.currentItem(): 0 = None, else index
    preview_size,      \* <<preview_label.width(), preview_label.height()>>
    wm_shown,          \* watermark_preview is visible (can be dragged)
    last_position,     \* self.last_position, as its '_'-separated fields
    current_color,     \* self.current_color
    is_text,           \* text_watermark_radio.isChecked()
    output_format,     \* output_format_combo.currentText()
    naming,            \* <<keep_name, add_prefix, add_suffix>> check boxes
    overlay,           \* the file watermark_image_path names: "missing" | "ok" | "unreadable"
    dir_writable,      \* the chosen output directory can be written
    window_closed,     \* closeEvent has been accepted
    pc,                \* "idle" | "exporting" | "report" | "template_box" |
                       \* "notice_box" | "aborted"
    export_i,          \* loop index i of export_images (0-based)
    total,             \* local `total` of export_images
    success_count,     \* local success_count
    error_count,       \* local error_count
    status,            \* N of the status bar message "N/total"; 0 = ready
    batch_files,       \* the items of the list when export_images began
    attempted,         \* files handed to _process_and_save_image, in order
    written,           \* files saved by this batch: [src, name, mode]
    rendered,          \* what the last _apply_watermark call did
    drag_canvas,       \* preview canvas size when the custom point was dragged
    render_canvas,     \* drag_canvas when the last placement was resolved
    closed_at,         \* Len(attempted) when the window was closed during a batch
    stack,             \* the suspended callers of the running handler
    events,            \* signals of the user dispatched to a slot so far
    template_files,    \* the files save_template wrote to TEMPLATES_DIR
    \* ---- the pure functions, applied to drawn inputs
    pos_in, pos_out,
    name_in, name_out,
    exif_in, exif_out,
    pix_in, pix_out,
    draw_in, draw_out,
    \* ---- the CLI (watermark_exif_date.main)
    cli_in,            \* the input path and the file system it is run on
    cli                \* position in main, its locals, what it wrote and printed

app_vars == <<image_list, current_row, preview_size, wm_shown, last_position,
              current_color, is_text, output_format, naming, overlay, dir_writable,
              window_closed, pc, export_i,
              total, success_count, error_count, status, batch_files,
              attempted, written,
              rendered, drag_canvas, render_canvas, closed_at, stack,
              events, template_files>>
pos_vars == <<pos_in, pos_out>>
name_vars == <<name_in, name_out>>
exif_vars == <<exif_in, exif_out>>
pix_vars == <<pix_in, pix_out>>
cli_vars == <<cli_in, cli>>
draw_vars == <<draw_in, draw_out>>
fun_vars == <<pos_vars, name_vars, exif_vars, pix_vars, cli_vars, draw_vars>>
\* what an action on one group of the pure-function variables leaves alone
not_pos == <<app_vars, name_vars, exif_vars, pix_vars, cli_vars,
            draw_vars>>
not_name == <<app_vars, pos_vars, exif_vars, pix_vars, cli_vars,
            draw_vars>>
not_exif == <<app_vars, pos_vars, name_vars, pix_vars, cli_vars,
            draw_vars>>
not_pix == <<app_vars, pos_vars, name_vars, exif_vars, cli_vars,
            draw_vars>>
not_cli == <<app_vars, pos_vars, name_vars, exif_vars, pix_vars,
            draw_vars>>
not_draw == <<app_vars, pos_vars, name_vars, exif_vars, pix_vars, cli_vars>>
vars == <<app_vars, fun_vars>>

None == "none"
\* no size, no position, no rule
NoSize == <<>>
\* closed_at when the window was not closed during the batch
NotClosed == 0 - 1

(***************************************************************************)
(* Bounds of the model                                                     *)
(***************************************************************************)
\* largest number of items in the image list
MaxFiles == 2
\* largest number of handlers suspended in a nested event loop
MaxNesting == 2
\* largest number of signals of the user in one session
MaxEvents == 5

(***************************************************************************)
(* Integer helpers                                                         *)
(***************************************************************************)
Max(a, b) == IF a >= b THEN a ELSE b
Min(a, b) == IF a <= b THEN a ELSE b

\* Python int(n / d) for d > 0: truncation toward zero of the quotient
TruncDiv(n, d) == IF n >= 0 THEN n \div d ELSE -((-n) \div d)

(***************************************************************************)
(* Texts.  A text is the sequence of its characters, each a string of      *)
(* length one; a character with no TLA+ escape is written by its code      *)
(* point.                                                                  *)
(***************************************************************************)
\* the characters str.strip() removes: str.isspace()
Whitespace ==
    {" ", "\t", "\n", "\r", "\f", "<0b>", "<1c>", "<1d>", "<1e>", "<1f>",
     "<85>", "<a0>", "<1680>", "<2000>", "<2001>", "<2002>", "<2003>",
     "<2004>", "<2005>", "<2006>", "<2007>", "<2008>", "<2009>", "<200a>",
     "<2028>", "<2029>", "<202f>", "<205f>", "<3000>"}

\* a byte sequence that is no valid UTF-8
InvalidByte == "<ff>"

\* s without the characters of chars at its start, at its end
RECURSIVE lstrip_chars(_, _)
lstrip_chars(s, chars) ==
    IF s # <<>> /\ Head(s) \in chars THEN lstrip_chars(Tail(s), chars) ELSE s

RECURSIVE rstrip_chars(_, _)
rstrip_chars(s, chars) ==
    IF s # <<>> /\ s[Len(s)] \in chars
    THEN rstrip_chars(SubSeq(s, 1, Len(s) - 1), chars) ELSE s

lstrip(s) == lstrip_chars(s, Whitespace)
rstrip(s) == rstrip_chars(s, Whitespace)

\* value.strip()
strip(s) == rstrip(lstrip(s))

\* the whitespace int() skips around a literal: the characters of
\* str.isspace() but the separators U+001C..U+001F
IntWhitespace == Whitespace \ {"<1c>", "<1d>", "<1e>", "<1f>"}

DigitChars == <<"0", "1", "2", "3", "4", "5", "6", "7", "8", "9">>

\* the decimal digits int() reads: the characters of category Nd, the ten
\* digits of each script from its zero on
DecimalDigits ==
    <<DigitChars,
      <<"<0660>", "<0661>", "<0662>", "<0663>", "<0664>",
        "<0665>", "<0666>", "<0667>", "<0668>", "<0669>">>,
      <<"<06f0>", "<06f1>", "<06f2>", "<06f3>", "<06f4>",
        "<06f5>", "<06f6>", "<06f7>", "<06f8>", "<06f9>">>,
      <<"<07c0>", "<07c1>", "<07c2>", "<07c3>", "<07c4>",
        "<07c5>", "<07c6>", "<07c7>", "<07c8>", "<07c9>">>,
      <<"<0966>", "<0967>", "<0968>", "<0969>", "<096a>",
        "<096b>", "<096c>", "<096d>", "<096e>", "<096f>">>,
      <<"<09e6>", "<09e7>", "<09e8>", "<09e9>", "<09ea>",
        "<09eb>", "<09ec>", "<09ed>", "<09ee>", "<09ef>">>,
      <<"<0a66>", "<0a67>", "<0a68>", "<0a69>", "<0a6a>",
        "<0a6b>", "<0a6c>", "<0a6d>", "<0a6e>", "<0a6f>">>,
      <<"<0ae6>", "<0ae7>", "<0ae8>", "<0ae9>", "<0aea>",
        "<0aeb>", "<0aec>", "<0aed>", "<0aee>", "<0aef>">>,
      <<"<0b66>", "<0b67>", "<0b68>", "<0b69>", "<0b6a>",
        "<0b6b>", "<0b6c>", "<0b6d>", "<0b6e>", "<0b6f>">>,
      <<"<0be6>", "<0be7>", "<0be8>", "<0be9>", "<0bea>",
        "<0beb>", "<0bec>", "<0bed>", "<0bee>", "<0bef>">>,
      <<"<0c66>", "<0c67>", "<0c68>", "<0c69>", "<0c6a>",
        "<0c6b>", "<0c6c>", "<0c6d>", "<0c6e>", "<0c6f>">>,
      <<"<0ce6>", "<0ce7>", "<0ce8>", "<0ce9>", "<0cea>",
        "<0ceb>", "<0cec>", "<0ced>", "<0cee>", "<0cef>">>,
      <<"<0d66>", "<0d67>", "<0d68>", "<0d69>", "<0d6a>",
        "<0d6b>", "<0d6c>", "<0d6d>", "<0d6e>", "<0d6f>">>,
      <<"<0de6>", "<0de7>", "<0de8>", "<0de9>", "<0dea>",
        "<0deb>", "<0dec>", "<0ded>", "<0dee>", "<0def>">>,
      <<"<0e50>", "<0e51>", "<0e52>", "<0e53>", "<0e54>",
        "<0e55>", "<0e56>", "<0e57>", "<0e58>", "<0e59>">>,
      <<"<0ed0>", "<0ed1>", "<0ed2>", "<0ed3>", "<0ed4>",
        "<0ed5>", "<0ed6>", "<0ed7>", "<0ed8>", "<0ed9>">>,
      <<"<0f20>", "<0f21>", "<0f22>", "<0f23>", "<0f24>",
        "<0f25>", "<0f26>", "<0f27>", "<0f28>", "<0f29>">>,
      <<"<1040>", "<1041>", "<1042>", "<1043>", "<1044>",
        "<1045>", "<1046>", "<1047>", "<1048>", "<1049>">>,
      <<"<1090>", "<1091>", "<1092>", "<1093>", "<1094>",
        "<1095>", "<1096>", "<1097>", "<1098>", "<1099>">>,
      <<"<17e0>", "<17e1>", "<17e2>", "<17e3>", "<17e4>",
        "<17e5>", "<17e6>", "<17e7>", "<17e8>", "<17e9>">>,
      <<"<1810>", "<1811>", "<1812>", "<1813>", "<1814>",
        "<1815>", "<1816>", "<1817>", "<1818>", "<1819>">>,
      <<"<1946>", "<1947>", "<1948>", "<1949>", "<194a>",
        "<194b>", "<194c>", "<194d>", "<194e>", "<194f>">>,
      <<"<19d0>", "<19d1>", "<19d2>", "<19d3>", "<19d4>",
        "<19d5>", "<19d6>", "<19d7>", "<19d8>", "<19d9>">>,
      <<"<1a80>", "<1a81>", "<1a82>", "<1a83>", "<1a84>",
        "<1a85>", "<1a86>", "<1a87>", "<1a88>", "<1a89>">>,
      <<"<1a90>", "<1a91>", "<1a92>", "<1a93>", "<1a94>",
        "<1a95>", "<1a96>", "<1a97>", "<1a98>", "<1a99>">>,
      <<"<1b50>", "<1b51>", "<1b52>", "<1b53>", "<1b54>",
        "<1b55>", "<1b56>", "<1b57>", "<1b58>", "<1b59>">>,
      <<"<1bb0>", "<1bb1>", "<1bb2>", "<1bb3>", "<1bb4>",
        "<1bb5>", "<1bb6>", "<1bb7>", "<1bb8>", "<1bb9>">>,
      <<"<1c40>", "<1c41>", "<1c42>", "<1c43>", "<1c44>",
        "<1c45>", "<1c46>", "<1c47>", "<1c48>", "<1c49>">>,
      <<"<1c50>", "<1c51>", "<1c52>", "<1c53>", "<1c54>",
        "<1c55>", "<1c56>", "<1c57>", "<1c58>", "<1c59>">>,
      <<"<a620>", "<a621>", "<a622>", "<a623>", "<a624>",
        "<a625>", "<a626>", "<a627>", "<a628>", "<a629>">>,
      <<"<a8d0>", "<a8d1>", "<a8d2>", "<a8d3>", "<a8d4>",
        "<a8d5>", "<a8d6>", "<a8d7>", "<a8d8>", "<a8d9>">>,
      <<"<a900>", "<a901>", "<a902>", "<a903>", "<a904>",
        "<a905>", "<a906>", "<a907>", "<a908>", "<a909>">>,
      <<"<a9d0>", "<a9d1>", "<a9d2>", "<a9d3>", "<a9d4>",
        "<a9d5>", "<a9d6>", "<a9d7>", "<a9d8>", "<a9d9>">>,
      <<"<a9f0>", "<a9f1>", "<a9f2>", "<a9f3>", "<a9f4>",
        "<a9f5>", "<a9f6>", "<a9f7>", "<a9f8>", "<a9f9>">>,
      <<"<aa50>", "<aa51>", "<aa52>", "<aa53>", "<aa54>",
        "<aa55>", "<aa56>", "<aa57>", "<aa58>", "<aa59>">>,
      <<"<abf0>", "<abf1>", "<abf2>", "<abf3>", "<abf4>",
        "<abf5>", "<abf6>", "<abf7>", "<abf8>", "<abf9>">>,
      <<"<ff10>", "<ff11>", "<ff12>", "<ff13>", "<ff14>",
        "<ff15>", "<ff16>", "<ff17>", "<ff18>", "<ff19>">>,
      <<"<104a0>", "<104a1>", "<104a2>", "<104a3>", "<104a4>",
        "<104a5>", "<104a6>", "<104a7>", "<104a8>", "<104a9>">>,
      <<"<10d30>", "<10d31>", "<10d32>", "<10d33>", "<10d34>",
        "<10d35>", "<10d36>", "<10d37>", "<10d38>", "<10d39>">>,
      <<"<11066>", "<11067>", "<11068>", "<11069>", "<1106a>",
        "<1106b>", "<1106c>", "<1106d>", "<1106e>", "<1106f>">>,
      <<"<110f0>", "<110f1>", "<110f2>", "<110f3>", "<110f4>",
        "<110f5>", "<110f6>", "<110f7>", "<110f8>", "<110f9>">>,
      <<"<11136>", "<11137>", "<11138>", "<11139>", "<1113a>",
        "<1113b>", "<1113c>", "<1113d>", "<1113e>", "<1113f>">>,
      <<"<111d0>", "<111d1>", "<111d2>", "<111d3>", "<111d4>",
        "<111d5>", "<111d6>", "<111d7>", "<111d8>", "<111d9>">>,
      <<"<112f0>", "<112f1>", "<112f2>", "<112f3>", "<112f4>",
        "<112f5>", "<112f6>", "<112f7>", "<112f8>", "<112f9>">>,
      <<"<11450>", "<11451>", "<11452>", "<11453>", "<11454>",
        "<11455>", "<11456>", "<11457>", "<11458>", "<11459>">>,
      <<"<114d0>", "<114d1>", "<114d2>", "<114d3>", "<114d4>",
        "<114d5>", "<114d6>", "<114d7>", "<114d8>", "<114d9>">>,
      <<"<11650>", "<11651>", "<11652>", "<11653>", "<11654>",
        "<11655>", "<11656>", "<11657>", "<11658>", "<11659>">>,
      <<"<116c0>", "<116c1>", "<116c2>", "<116c3>", "<116c4>",
        "<116c5>", "<116c6>", "<116c7>", "<116c8>", "<116c9>">>,
      <<"<11730>", "<11731>", "<11732>", "<11733>", "<11734>",
        "<11735>", "<11736>", "<11737>", "<11738>", "<11739>">>,
      <<"<118e0>", "<118e1>", "<118e2>", "<118e3>", "<118e4>",
        "<118e5>", "<118e6>", "<118e7>", "<118e8>", "<118e9>">>,
      <<"<11950>", "<11951>", "<11952>", "<11953>", "<11954>",
        "<11955>", "<11956>", "<11957>", "<11958>", "<11959>">>,
      <<"<11c50>", "<11c51>", "<11c52>", "<11c53>", "<11c54>",
        "<11c55>", "<11c56>", "<11c57>", "<11c58>", "<11c59>">>,
      <<"<11d50>", "<11d51>", "<11d52>", "<11d53>", "<11d54>",
        "<11d55>", "<11d56>", "<11d57>", "<11d58>", "<11d59>">>,
      <<"<11da0>", "<11da1>", "<11da2>", "<11da3>", "<11da4>",
        "<11da5>", "<11da6>", "<11da7>", "<11da8>", "<11da9>">>,
      <<"<16a60>", "<16a61>", "<16a62>", "<16a63>", "<16a64>",
        "<16a65>", "<16a66>", "<16a67>", "<16a68>", "<16a69>">>,
      <<"<16ac0>", "<16ac1>", "<16ac2>", "<16ac3>", "<16ac4>",
        "<16ac5>", "<16ac6>", "<16ac7>", "<16ac8>", "<16ac9>">>,
      <<"<16b50>", "<16b51>", "<16b52>", "<16b53>", "<16b54>",
        "<16b55>", "<16b56>", "<16b57>", "<16b58>", "<16b59>">>,
      <<"<1d7ce>", "<1d7cf>", "<1d7d0>", "<1d7d1>", "<1d7d2>",
        "<1d7d3>", "<1d7d4>", "<1d7d5>", "<1d7d6>", "<1d7d7>">>,
      <<"<1d7d8>", "<1d7d9>", "<1d7da>", "<1d7db>", "<1d7dc>",
        "<1d7dd>", "<1d7de>", "<1d7df>", "<1d7e0>", "<1d7e1>">>,
      <<"<1d7e2>", "<1d7e3>", "<1d7e4>", "<1d7e5>", "<1d7e6>",
        "<1d7e7>", "<1d7e8>", "<1d7e9>", "<1d7ea>", "<1d7eb>">>,
      <<"<1d7ec>", "<1d7ed>", "<1d7ee>", "<1d7ef>", "<1d7f0>",
        "<1d7f1>", "<1d7f2>", "<1d7f3>", "<1d7f4>", "<1d7f5>">>,
      <<"<1d7f6>", "<1d7f7>", "<1d7f8>", "<1d7f9>", "<1d7fa>",
        "<1d7fb>", "<1d7fc>", "<1d7fd>", "<1d7fe>", "<1d7ff>">>,
      <<"<1e140>", "<1e141>", "<1e142>", "<1e143>", "<1e144>",
        "<1e145>", "<1e146>", "<1e147>", "<1e148>", "<1e149>">>,
      <<"<1e2f0>", "<1e2f1>", "<1e2f2>", "<1e2f3>", "<1e2f4>",
        "<1e2f5>", "<1e2f6>", "<1e2f7>", "<1e2f8>", "<1e2f9>">>,
      <<"<1e950>", "<1e951>", "<1e952>", "<1e953>", "<1e954>",
        "<1e955>", "<1e956>", "<1e957>", "<1e958>", "<1e959>">>,
      <<"<1fbf0>", "<1fbf1>", "<1fbf2>", "<1fbf3>", "<1fbf4>",
        "<1fbf5>", "<1fbf6>", "<1fbf7>", "<1fbf8>", "<1fbf9>">>>>

\* str(n) of a natural number
RECURSIVE NatStr(_)
NatStr(n) ==
    IF n < 10 THEN <<DigitChars[n + 1]>>
    ELSE NatStr(n \div 10) \o <<DigitChars[(n % 10) + 1]>>

\* str(n), as in f"{n}"
str(n) == IF n < 0 THEN <<"-">> \o NatStr(0 - n) ELSE NatStr(n)

IsDigit(c) ==
    \E n \in 1..Len(DecimalDigits), k \in 1..10 : DecimalDigits[n][k] = c
DigitValue(c) ==
    (CHOOSE k \in 1..10 :
        \E n \in 1..Len(DecimalDigits) : DecimalDigits[n][k] = c) - 1

\* the literal int() reads: the text without the whitespace int() skips
\* around it
IntLiteral(t) ==
    rstrip_chars(lstrip_chars(t, IntWhitespace), IntWhitespace)

\* the digits of an integer literal: the literal without its sign
IntDigits(t) ==
    LET s == IntLiteral(t)
    IN IF s # <<>> /\ Head(s) \in {"+", "-"} THEN Tail(s) ELSE s

\* sys.get_int_max_str_digits(): int() raises ValueError on a literal of
\* more digits, leading zeros counted
int_max_str_digits == 4300

\* int(s) succeeds: optional whitespace, an optional sign, decimal digits
\* (a field of split('_') holds no underscore)
IsIntText(t) ==
    LET ds == IntDigits(t)
    IN /\ ds # <<>>
       /\ Len(ds) <= int_max_str_digits
       /\ \A k \in 1..Len(ds) : IsDigit(ds[k])

(***************************************************************************)
(* Floats.  int(p * (a / b)) as the code computes it: a / b is rounded to  *)
(* the nearest double (ties to even), so is the product, and int() cuts    *)
(* the fraction off.  A number is kept exactly as its digits in base       *)
(* 2^FloatDigitBits: d[1] the integer part, d[k+1] the k-th digit after    *)
(* the point.                                                              *)
(***************************************************************************)
FloatDigitBits == 13
FloatDigits == 7
MantissaBits == 53

RECURSIVE Pow2(_)
Pow2(k) == IF k = 0 THEN 1 ELSE 2 * Pow2(k - 1)

FloatBase == Pow2(FloatDigitBits)

RECURSIVE BitLen(_)
BitLen(n) == IF n = 0 THEN 0 ELSE 1 + BitLen(n \div 2)

\* n digits of r / b after the point, and whether a remainder is left
RECURSIVE QuotientDigits(_, _, _)
QuotientDigits(r, b, n) ==
    IF n = 0 THEN [d |-> <<>>, rest |-> r # 0]
    ELSE LET t == QuotientDigits((r * FloatBase) % b, b, n - 1)
         IN [d |-> <<(r * FloatBase) \div b>> \o t.d, rest |-> t.rest]

\* a / b for b > 0, before it is rounded
ExactQuotient(a, b) ==
    LET t == QuotientDigits(a % b, b, FloatDigits)
    IN [d |-> <<a \div b>> \o t.d, rest |-> t.rest]

\* the carry out of digit k, taken upward
RECURSIVE Carry(_, _)
Carry(d, k) ==
    IF k > 1 /\ d[k] >= FloatBase
    THEN Carry([d EXCEPT ![k] = @ - FloatBase, ![k - 1] = @ + 1], k - 1)
    ELSE d

\* the nearest double of the number d (+ something below its last digit
\* when rest), ties to even
RoundToDouble(d, rest) ==
    IF \A k \in 1..Len(d) : d[k] = 0 THEN d
    ELSE LET lead == CHOOSE k \in 1..Len(d) :
                         d[k] # 0 /\ \A h \in 1..(k - 1) : d[h] = 0
             \* bits after the point the mantissa reaches
             F == FloatDigitBits * (lead - 1) - BitLen(d[lead]) + MantissaBits
             c == F \div FloatDigitBits
             k == F % FloatDigitBits
             pos == c + 2
             unit == Pow2(FloatDigitBits - k)
             half == unit \div 2
             hi == d[pos] \div unit
             lo == d[pos] % unit
             tail == rest \/ \E h \in (pos + 1)..Len(d) : d[h] # 0
             odd == IF k > 0 THEN hi % 2 = 1 ELSE d[pos - 1] % 2 = 1
             up == lo > half \/ (lo = half /\ (tail \/ odd))
             cut == [h \in 1..Len(d) |->
                        IF h < pos THEN d[h]
                        ELSE IF h = pos
                        THEN hi * unit + (IF up THEN unit ELSE 0)
                        ELSE 0]
         IN IF pos > Len(d) THEN d ELSE Carry(cut, pos)

\* d * p for an integer p > 0, exactly
RECURSIVE TimesFrom(_, _, _, _)
TimesFrom(d, p, k, carry) ==
    IF k = 1 THEN <<d[1] * p + carry>>
    ELSE LET v == d[k] * p + carry
         IN TimesFrom(d, p, k - 1, v \div FloatBase) \o <<v % FloatBase>>

\* a / b for integers a > 0, b > 0: the double nearest to the quotient
FloatQuotient(a, b) ==
    LET q == ExactQuotient(a, b) IN RoundToDouble(q.d, q.rest)

\* int(p * scale) for an integer p > 0 and a double scale: the product is
\* rounded to a double, int() drops its fraction
TruncProduct(p, scale) ==
    RoundToDouble(TimesFrom(scale, p, Len(scale), 0), FALSE)[1]

\* int(p * (a / b)) for integers p, a >= 0, b > 0
FloatScaleTrunc(p, a, b) ==
    IF p = 0 \/ a = 0 THEN 0
    ELSE IF p < 0 THEN 0 - TruncProduct(0 - p, FloatQuotient(a, b))
    ELSE TruncProduct(p, FloatQuotient(a, b))

(***************************************************************************)
(* Integers of any size.  int() of a text is a Python int, which has no    *)
(* width: it is kept as its sign and its magnitude, the magnitude as its   *)
(* digits in base 2^FloatDigitBits, the most significant first, <<>> for   *)
(* zero.                                                                   *)
(***************************************************************************)
\* d without the zeros at its start
Trim(d) ==
    IF \A k \in 1..Len(d) : d[k] = 0 THEN <<>>
    ELSE LET lead == CHOOSE k \in 1..Len(d) :
                         d[k] # 0 /\ \A h \in 1..(k - 1) : d[h] = 0
         IN [i \in 1..(Len(d) - lead + 1) |-> d[i + lead - 1]]

SignedInt(neg, mag) == [neg |-> neg /\ mag # <<>>, mag |-> mag]

\* the magnitude of a natural number of the model
RECURSIVE Magnitude(_)
Magnitude(n) ==
    IF n = 0 THEN <<>>
    ELSE Magnitude(n \div FloatBase) \o <<n % FloatBase>>

\* the digits lo..hi of d after their carries, the least significant
\* first: into is the carry into digit hi, over the carry out of digit lo
RECURSIVE Carried(_, _, _, _)
Carried(d, lo, hi, into) ==
    IF lo = hi
    THEN [digits |-> <<(d[lo] + into) % FloatBase>>,
          over |-> (d[lo] + into) \div FloatBase]
    ELSE LET mid == (lo + hi) \div 2
             right == Carried(d, mid + 1, hi, into)
             left == Carried(d, lo, mid, right.over)
         IN [digits |-> right.digits \o left.digits, over |-> left.over]

\* d after its carries, for a d whose first digit takes the last carry
Normal(d) ==
    LET low == Carried(d, 1, Len(d), 0).digits
    IN [i \in 1..Len(d) |-> low[Len(d) + 1 - i]]

\* what s[j] gives digit i of f * s, for digits below FloatBase: the low
\* half of its product with the digit of f that falls on digit i, the
\* high half of its product with the digit of f that falls on digit i + 1
Cell(f, s, i, j) ==
    (IF i - j \in 1..Len(f) THEN (f[i - j] * s[j]) % FloatBase ELSE 0)
    + (IF i - j + 1 \in 1..Len(f)
       THEN (f[i - j + 1] * s[j]) \div FloatBase ELSE 0)

\* what s[lo..hi] give digit i of f * s
RECURSIVE Column(_, _, _, _, _)
Column(f, s, i, lo, hi) ==
    IF lo = hi THEN Cell(f, s, i, lo)
    ELSE Column(f, s, i, lo, (lo + hi) \div 2)
         + Column(f, s, i, (lo + hi) \div 2 + 1, hi)

\* f * s exactly, in Len(f) + Len(s) digits
Times(f, s) ==
    IF f = <<>> \/ s = <<>> THEN [i \in 1..(Len(f) + Len(s)) |-> 0]
    ELSE Normal([i \in 1..(Len(f) + Len(s)) |-> Column(f, s, i, 1, Len(s))])

\* a + b for magnitudes a and b
Plus(a, b) ==
    LET n == Max(Len(a), Len(b))
    IN Trim(Normal(
           [i \in 1..(n + 1) |->
               (IF i - 1 > n - Len(a) THEN a[i - 1 - (n - Len(a))] ELSE 0)
               + (IF i - 1 > n - Len(b) THEN b[i - 1 - (n - Len(b))] ELSE 0)]))

\* the number a few decimal digits denote
RECURSIVE SmallNat(_)
SmallNat(ds) ==
    IF ds = <<>> THEN 0
    ELSE 10 * SmallNat(SubSeq(ds, 1, Len(ds) - 1)) + DigitValue(ds[Len(ds)])

\* the magnitude of 10^m
RECURSIVE PowerOfTen(_)
PowerOfTen(m) ==
    IF m = 0 THEN <<1>>
    ELSE IF m % 2 = 1 THEN Trim(Times(PowerOfTen(m - 1), <<10>>))
    ELSE Trim(Times(PowerOfTen(m \div 2), PowerOfTen(m \div 2)))

\* the magnitude a sequence of decimal digits denotes: the digits of its
\* first half times the power of ten of the rest, plus the rest
RECURSIVE NatOf(_)
NatOf(ds) ==
    IF Len(ds) <= 3 THEN Magnitude(SmallNat(ds))
    ELSE Plus(Trim(Times(NatOf(SubSeq(ds, 1, Len(ds) \div 2)),
                         PowerOfTen(Len(ds) - Len(ds) \div 2))),
              NatOf(SubSeq(ds, Len(ds) \div 2 + 1, Len(ds))))

\* int(s): neg is set for a negative value, mag holds the digits of its
\* magnitude in base 2^13 = 8192, the most significant first (5 is
\* [neg |-> FALSE, mag |-> <<5>>], -8193 is [neg |-> TRUE, mag |-> <<1, 1>>],
\* 0 is [neg |-> FALSE, mag |-> <<>>])
IntOf(t) == SignedInt(Head(IntLiteral(t)) = "-", NatOf(IntDigits(t)))

\* the Python int of an integer of the model, and the integer of the
\* model of a Python int
PyInt(n) == SignedInt(n < 0, Magnitude(IF n < 0 THEN 0 - n ELSE n))

RECURSIVE MagnitudeValue(_)
MagnitudeValue(d) ==
    IF d = <<>> THEN 0
    ELSE MagnitudeValue(SubSeq(d, 1, Len(d) - 1)) * FloatBase + d[Len(d)]

PyValue(x) ==
    IF x.neg THEN 0 - MagnitudeValue(x.mag) ELSE MagnitudeValue(x.mag)

\* x < y
MagnitudeLess(a, b) ==
    \/ Len(a) < Len(b)
    \/ /\ Len(a) = Len(b)
       /\ \E k \in 1..Len(a) :
              a[k] < b[k] /\ \A h \in 1..(k - 1) : a[h] = b[h]

PyLess(x, y) ==
    IF x.neg # y.neg THEN x.neg
    ELSE IF x.neg THEN MagnitudeLess(y.mag, x.mag)
    ELSE MagnitudeLess(x.mag, y.mag)

\* min(x, y), max(x, y)
PyMin(x, y) == IF PyLess(y, x) THEN y ELSE x
PyMax(x, y) == IF PyLess(x, y) THEN y ELSE x

(***************************************************************************)
(* int(x * scale) for a Python int x and a double scale: x is converted    *)
(* to the nearest double, the product is rounded to a double, int() cuts   *)
(* its fraction off.  A double is below 2^FloatMaxExp: the conversion of   *)
(* an int that rounds to 2^FloatMaxExp or more raises OverflowError, a     *)
(* product that does is inf, and int(inf) raises OverflowError.            *)
(***************************************************************************)
\* sys.float_info.max_exp
FloatMaxExp == 1024

\* the number of bits of a magnitude
BitsOf(d) ==
    IF d = <<>> THEN 0 ELSE FloatDigitBits * (Len(d) - 1) + BitLen(d[1])

\* float(x) for the magnitude of x: the nearest double, not yet tested
\* against the range of a double
ToFloat(mag) == Trim(RoundToDouble(<<0>> \o mag, FALSE))

\* the magnitude is past the largest finite double
IsInf(f) == BitsOf(f) > FloatMaxExp

\* the digits of a double with its integer part in two digits
ScaleDigits(scale) ==
    <<scale[1] \div FloatBase, scale[1] % FloatBase>> \o Tail(scale)

\* float(x) * scale for the magnitude of x, rounded to a double
FloatProduct(mag, scale) ==
    RoundToDouble(Times(ToFloat(mag), ScaleDigits(scale)), FALSE)

\* the digits of a double before the point, as a magnitude
IntPart(f) == Trim([i \in 1..(Len(f) - FloatDigits) |-> f[i]])

\* int(x * scale) raises OverflowError
OverflowError(x, scale) ==
    \/ IsInf(ToFloat(x.mag))
    \/ IsInf(IntPart(FloatProduct(x.mag, scale)))

\* int(x * scale), as sign and magnitude, where no OverflowError is raised
TruncTimes(x, scale) == SignedInt(x.neg, IntPart(FloatProduct(x.mag, scale)))

(***************************************************************************)
(* Position strings.  A position string is kept as the list of its fields  *)
(* str.split('_') returns, the fields after the first as texts: 'br' is    *)
(* <<"br">>, 'custom_-8_20' is <<"custom", <<"-", "8">>, <<"2", "0">>>>.     *)
(***************************************************************************)
\* f"custom_{x}_{y}"
custom_position(x, y) == <<"custom", str(x), str(y)>>

\* 'custom_x_y': a custom position whose coordinates are no integers
custom_x_y == <<"custom", <<"x">>, <<"y">>>>

\* self.last_position.startswith('custom_')
StartsWithCustom(lp) == Len(lp) >= 2 /\ lp[1] = "custom"

PresetKeys == {"tl", "tr", "bl", "br", "center"}

\* the anchor table with the top-right margin added instead of subtracted
WATERMARK_POSITIONS_margin_outward(key, img_w, img_h, w, h, m) ==
    CASE key = "tl" -> <<m, m>>
      [] key = "tr" -> <<img_w - w + m, m>>
      [] key = "bl" -> <<m, img_h - h - m>>
      [] key = "br" -> <<img_w - w - m, img_h - h - m>>
      [] key = "center" -> <<(img_w - w) \div 2, (img_h - h) \div 2>>

WATERMARK_POSITIONS_center_trunc(key, img_w, img_h, w, h, m) ==
    CASE key = "tl" -> <<m, m>>
      [] key = "tr" -> <<img_w - w - m, m>>
      [] key = "bl" -> <<m, img_h - h - m>>
      [] key = "br" -> <<img_w - w - m, img_h - h - m>>
      [] key = "center" -> <<TruncDiv(img_w - w, 2), TruncDiv(img_h - h, 2)>>

(***************************************************************************)
(* Preset table of the GUI: WATERMARK_POSITIONS[key][1](img_w,img_h,w,h,m) *)
(***************************************************************************)
WATERMARK_POSITIONS(key, img_w, img_h, w, h, m) ==
    CASE key = "tl" -> <<m, m>>
      [] key = "tr" -> <<img_w - w - m, m>>
      [] key = "bl" -> <<m, img_h - h - m>>
      [] key = "br" -> <<img_w - w - m, img_h - h - m>>
      [] key = "center" -> <<(img_w - w) \div 2, (img_h - h) \div 2>>

(***************************************************************************)
(* compute_position of the CLI                                             *)
(***************************************************************************)
compute_position(img_w, img_h, text_w, text_h, position, margin) ==
    IF position = "tl" THEN <<margin, margin>>
    ELSE IF position = "tr" THEN <<img_w - text_w - margin, margin>>
    ELSE IF position = "bl" THEN <<margin, img_h - text_h - margin>>
    ELSE IF position = "br"
         THEN <<img_w - text_w - margin, img_h - text_h - margin>>
    ELSE <<(img_w - text_w) \div 2, (img_h - text_h) \div 2>>

(***************************************************************************)
(* WatermarkApp._calculate_watermark_position.  pw, ph are what            *)
(* preview_label.width() / height() return.  The result carries the        *)
(* position and the value of self.last_position after the call.            *)
(***************************************************************************)
\* the try block of the custom branch runs to its return
CustomTryOk(lp, img_w, img_h, pw, ph) ==
    /\ Len(lp) = 3                      \* _, preview_x, preview_y = split('_')
    /\ pw # 0                           \* img_width / preview_img_width
    /\ ph # 0                           \* img_height / preview_img_height
    /\ IsIntText(lp[2])                 \* int(preview_x)
    /\ ~OverflowError(IntOf(lp[2]), FloatQuotient(img_w, pw))
    /\ IsIntText(lp[3])                 \* int(preview_y)
    /\ ~OverflowError(IntOf(lp[3]), FloatQuotient(img_h, ph))

\* a clamp that applies the upper bound last
Clamp_upper_last(x, hi) ==
    PyValue(PyMin(PyMax(PyInt(0), x), PyInt(hi)))

\* x = int(int(preview_x) * scale_x) with the canvas taken one pixel wider
ScaledCoord_padded(p, full, prev) ==
    TruncTimes(p, FloatQuotient(full, prev + 1))

\* x = int(int(preview_x) * scale_x), scale_x = img_width / preview_img_width,
\* for the Python int p = int(preview_x); the result is a Python int
ScaledCoord(p, full, prev) == TruncTimes(p, FloatQuotient(full, prev))

\* max(0, min(x, img_width - wm_width)) for a Python int x: the result lies
\* between 0 and hi or is 0, and is an integer of the model
Clamp(x, hi) == PyValue(PyMax(PyInt(0), PyMin(x, PyInt(hi))))

PresetOrDefault(lp, img_w, img_h, w, h, m) ==
    IF Len(lp) = 1 /\ lp[1] \in PresetKeys
    THEN WATERMARK_POSITIONS(lp[1], img_w, img_h, w, h, m)
    ELSE <<img_w - w - m, img_h - h - m>>

calculate_watermark_position_tl_fallback(lp, img_w, img_h, w, h, m, pw, ph) ==
    IF StartsWithCustom(lp)
    THEN IF CustomTryOk(lp, img_w, img_h, pw, ph)
         THEN [xy |-> <<Clamp(ScaledCoord(IntOf(lp[2]), img_w, pw), img_w - w),
                        Clamp(ScaledCoord(IntOf(lp[3]), img_h, ph), img_h - h)>>,
               last_position |-> lp]
         ELSE [xy |-> PresetOrDefault(<<"tl">>, img_w, img_h, w, h, m),
               last_position |-> <<"tl">>]
    ELSE [xy |-> PresetOrDefault(lp, img_w, img_h, w, h, m),
          last_position |-> lp]

calculate_watermark_position_no_floor(lp, img_w, img_h, w, h, m, pw, ph) ==
    IF StartsWithCustom(lp)
    THEN IF CustomTryOk(lp, img_w, img_h, pw, ph)
         THEN [xy |-> <<PyValue(PyMin(ScaledCoord(IntOf(lp[2]), img_w, pw),
                                      PyInt(img_w - w))),
                        PyValue(PyMin(ScaledCoord(IntOf(lp[3]), img_h, ph),
                                      PyInt(img_h - h)))>>,
               last_position |-> lp]
         ELSE [xy |-> PresetOrDefault(<<"br">>, img_w, img_h, w, h, m),
               last_position |-> <<"br">>]
    ELSE [xy |-> PresetOrDefault(lp, img_w, img_h, w, h, m),
          last_position |-> lp]

calculate_watermark_position(lp, img_w, img_h, w, h, m, pw, ph) ==
    IF StartsWithCustom(lp)
    THEN IF CustomTryOk(lp, img_w, img_h, pw, ph)
         THEN [xy |-> <<Clamp(ScaledCoord(IntOf(lp[2]), img_w, pw), img_w - w),
                        Clamp(ScaledCoord(IntOf(lp[3]), img_h, ph), img_h - h)>>,
               last_position |-> lp]
         ELSE \* except (ValueError of split or int(), ZeroDivisionError,
              \* OverflowError): self.last_position = 'br', then the
              \* preset branch
              [xy |-> PresetOrDefault(<<"br">>, img_w, img_h, w, h, m),
               last_position |-> <<"br">>]
    ELSE [xy |-> PresetOrDefault(lp, img_w, img_h, w, h, m),
          last_position |-> lp]

(***************************************************************************)
(* WatermarkApp._get_output_filename                                       *)
(***************************************************************************)
FormatJPEG == "JPEG (*.jpg)"
FormatPNG == "PNG (*.png)"
OutputFormats == {FormatJPEG, FormatPNG}

\* 'PNG' in output_format, for the two items of output_format_combo
ContainsPNG(fmt) == fmt = FormatPNG

OutputExt(fmt) == IF ContainsPNG(fmt) THEN ".png" ELSE ".jpg"

\* the naming rule with the prefix and the suffix both applied when both
\* boxes are checked
get_output_filename_both(stem, src_ext, nm, prefix, suffix, fmt) ==
    IF nm[1] THEN stem \o OutputExt(fmt)
    ELSE IF nm[2] /\ nm[3] THEN prefix \o stem \o suffix \o OutputExt(fmt)
    ELSE IF nm[2] THEN prefix \o stem \o OutputExt(fmt)
    ELSE IF nm[3] THEN stem \o suffix \o OutputExt(fmt)
    ELSE stem \o OutputExt(fmt)

get_output_filename_source_ext(stem, src_ext, nm, prefix, suffix, fmt) ==
    IF nm[1] THEN stem \o src_ext
    ELSE IF nm[2] THEN prefix \o stem \o src_ext
    ELSE IF nm[3] THEN stem \o suffix \o src_ext
    ELSE stem \o src_ext

\* nm = <<keep_name_radio, add_prefix_radio, add_suffix_radio>>.isChecked()
get_output_filename(stem, src_ext, nm, prefix, suffix, fmt) ==
    IF nm[1] THEN stem \o OutputExt(fmt)
    ELSE IF nm[2] THEN prefix \o stem \o OutputExt(fmt)
    ELSE IF nm[3] THEN stem \o suffix \o OutputExt(fmt)
    ELSE stem \o OutputExt(fmt)

(***************************************************************************)
(* The files of the model: ImageThumbnailItem.image_path, with what        *)
(* Image.open finds there.  A and B share the stem, in different           *)
(* directories and with different extensions; C does not decode.           *)
(***************************************************************************)
Files == {"A", "B", "C"}

FileInfo(f) ==
    CASE f = "A" -> [dir |-> "/a", stem |-> "photo", ext |-> ".jpg",
                     decodes |-> TRUE, mode |-> "RGB", size |-> <<1078, 808>>]
      [] f = "B" -> [dir |-> "/b", stem |-> "photo", ext |-> ".png",
                     decodes |-> TRUE, mode |-> "RGBA", size |-> <<400, 300>>]
      [] f = "C" -> [dir |-> "/a", stem |-> "broken", ext |-> ".jpg",
                     decodes |-> FALSE, mode |-> None, size |-> <<0, 0>>]

\* positions the dragged watermark label reports: (self.x(), self.y())
DragPoints == {<<-8, 20>>, <<200, 150>>}

\* keep_name_radio, add_prefix_radio, add_suffix_radio after init_ui
default_naming == <<TRUE, FALSE, FALSE>>

\* self.last_position was never assigned: reading it raises AttributeError
Unset == <<>>

\* self.current_color was never assigned: reading it raises AttributeError
ColorUnset == "<unassigned>"

\* the colour without a configuration file, and the colour the colour
\* dialog or a template gives
default_color == "#FFFFFF"
picked_color == "#ff0000"

\* what load_last_settings leaves in the widgets, in last_position and in
\* current_color: the defaults without a configuration file; what
\* save_settings wrote at the last closeEvent (after a drag with an image
\* watermark); a file with no 'text' section, so that current_color is
\* never assigned; a file edited to a custom position that is no pair of
\* integers and a naming rule that is no rule; a file that has no
\* 'position' or breaks off before it, so that last_position is never
\* assigned; a file that holds a position and nothing else; a file that
\* json.load rejects, or that holds neither a colour nor a position, so
\* that neither attribute is ever assigned
ConfigFiles ==
    {[is_text |-> TRUE, overlay |-> "missing", last_position |-> <<"br">>,
      current_color |-> default_color,
      output_format |-> FormatJPEG, naming |-> default_naming],
     [is_text |-> FALSE, overlay |-> "ok",
      last_position |-> custom_position(200, 150),
      current_color |-> picked_color,
      output_format |-> FormatPNG, naming |-> <<FALSE, TRUE, FALSE>>],
     [is_text |-> TRUE, overlay |-> "missing", last_position |-> <<"center">>,
      current_color |-> ColorUnset,
      output_format |-> FormatPNG, naming |-> <<FALSE, FALSE, TRUE>>],
     [is_text |-> TRUE, overlay |-> "missing", last_position |-> custom_x_y,
      current_color |-> default_color,
      output_format |-> FormatJPEG, naming |-> <<FALSE, FALSE, FALSE>>],
     [is_text |-> FALSE, overlay |-> "unreadable", last_position |-> Unset,
      current_color |-> default_color,
      output_format |-> FormatJPEG, naming |-> <<FALSE, FALSE, TRUE>>],
     [is_text |-> TRUE, overlay |-> "missing", last_position |-> <<"br">>,
      current_color |-> ColorUnset,
      output_format |-> FormatJPEG, naming |-> default_naming],
     [is_text |-> TRUE, overlay |-> "missing", last_position |-> Unset,
      current_color |-> ColorUnset,
      output_format |-> FormatJPEG, naming |-> default_naming]}

\* what watermark_image_path names
OverlayStates == {"missing", "ok", "unreadable"}

\* template files load_template reads: a key that is absent is None
Templates ==
    {[watermark_type |-> "image", path |-> "ok", color |-> None,
      has_position |-> TRUE, position |-> custom_position(200, 150)],
     [watermark_type |-> "text", path |-> None, color |-> picked_color,
      has_position |-> TRUE, position |-> <<"center">>],
     [watermark_type |-> None, path |-> "unreadable", color |-> None,
      has_position |-> FALSE, position |-> Unset]}

\* the file save_template writes for the settings of the window: every
\* key is there
template_of(text, ov, color, lp) ==
    [watermark_type |-> IF text THEN "text" ELSE "image", path |-> ov,
     color |-> color, has_position |-> TRUE, position |-> lp]

\* prefix_edit and suffix_edit
prefix_text == "wm_"
suffix_text == "_watermarked"

\* margin_spin.value()
margin_value == 12

\* preview_label.setMinimumSize(400, 300)
min_preview_size == <<400, 300>>

\* the geometry of a widget that was never laid out: preview_label of a
\* window that was constructed and not shown
unshown_size == <<640, 480>>

\* the size preview_label has before the first setFixedSize: init_ui sets
\* its minimum only, the size is the one the layout of the window gives
\* it when it is shown, from the minimum up
StartPreviewSizes == {min_preview_size, unshown_size}

\* size of the measured text (draw.textbbox) and of the scaled overlay
WmSize == <<100, 40>>

max_width == 800
max_height == 600

\* update_preview: scale = min(max_width / W, max_height / H, 1.0);
\* new_width = int(W * scale); new_height = int(H * scale)
PreviewSize(size) ==
    LET W == size[1]
        H == size[2]
        byWidth == max_width * H <= max_height * W
    IN IF byWidth /\ max_width < W
       THEN <<FloatScaleTrunc(W, max_width, W),
              FloatScaleTrunc(H, max_width, W)>>
       ELSE IF ~byWidth /\ max_height < H
       THEN <<FloatScaleTrunc(W, max_height, H),
              FloatScaleTrunc(H, max_height, H)>>
       ELSE <<W, H>>

\* PreviewSize of the files of the model
PreviewSizeOf ==
    [f \in {g \in Files : FileInfo(g).decodes} |-> PreviewSize(FileInfo(f).size)]

(***************************************************************************)
(* WatermarkApp.update_preview, with _update_text_watermark_preview and    *)
(* _update_image_watermark_preview.  It returns what it leaves in          *)
(* preview_label's size, watermark_preview's visibility and last_position. *)
(***************************************************************************)
\* the custom branch of a preview updater parses the position
PreviewParses(lp) == Len(lp) = 3 /\ IsIntText(lp[2]) /\ IsIntText(lp[3])

\* update_preview from setFixedSize(new_width, new_height) on, for a
\* current item that decodes: _update_text_watermark_preview or
\* _update_image_watermark_preview
update_watermark_preview(ns, lp, color, text, ov) ==
    IF text /\ color = ColorUnset
    THEN \* QColor(self.current_color) raises AttributeError: setText, hide
         [preview_size |-> ns, wm_shown |-> FALSE, last_position |-> lp]
    ELSE IF lp = Unset /\ (text \/ ov = "ok")
    THEN \* self.last_position raises AttributeError: setText or the
         \* except clause of the image preview, hide
         [preview_size |-> ns, wm_shown |-> FALSE, last_position |-> lp]
    ELSE IF text
    THEN \* a custom position that does not parse is reset to 'br' by
         \* set_watermark_position, which previews again
         [preview_size |-> ns, wm_shown |-> TRUE,
          last_position |-> IF StartsWithCustom(lp) /\ ~PreviewParses(lp)
                            THEN <<"br">> ELSE lp]
    ELSE IF ov = "missing"
    THEN [preview_size |-> ns, wm_shown |-> FALSE, last_position |-> lp]
    ELSE IF ov = "unreadable"
    THEN \* Image.open(watermark_image_path) raises: hide
         [preview_size |-> ns, wm_shown |-> FALSE, last_position |-> lp]
    ELSE [preview_size |-> ns, wm_shown |-> TRUE,
          last_position |-> IF StartsWithCustom(lp) /\ ~PreviewParses(lp)
                            THEN <<"br">> ELSE lp]

update_preview(list, cur, psize, shown, lp, color, text, ov) ==
    LET same == [preview_size |-> psize, wm_shown |-> shown, last_position |-> lp]
    IN IF cur = 0 \/ cur > Len(list)
       THEN same                              \* no current item: return
       ELSE IF ~FileInfo(list[cur]).decodes
       THEN \* Image.open raises: setText, hide
            [same EXCEPT !.wm_shown = FALSE]
       ELSE IF \E k \in 1..2 : PreviewSizeOf[list[cur]][k] < 1
       THEN \* resize raises: setText, hide
            [same EXCEPT !.wm_shown = FALSE]
       ELSE update_watermark_preview(PreviewSizeOf[list[cur]], lp, color,
                                     text, ov)

\* the main window takes user events: it is open and no modal box is up
UiAlive == ~window_closed /\ pc \in {"idle", "exporting"}

\* the event loop dispatches one more signal of the user to its slot
UserEvent == UiAlive /\ events < MaxEvents /\ events' = events + 1

batch_vars == <<export_i, total, success_count, error_count, dir_writable,
                batch_files, attempted, written>>
export_state == <<pc, batch_vars, status, rendered, render_canvas, closed_at,
                  stack>>
settings == <<is_text, output_format, naming, overlay, current_color>>

\* the handler that runs, with the locals of export_images and what its
\* batch has done
Frame == [pc |-> pc, export_i |-> export_i, total |-> total,
          success_count |-> success_count, error_count |-> error_count,
          dir_writable |-> dir_writable, batch_files |-> batch_files,
          attempted |-> attempted, written |-> written]

\* a handler that opens a modal box or enters the export loop suspends the
\* one that was dispatching events
Suspend == stack' = Append(stack, Frame)

\* the handler returns to the event loop that dispatched it
Resume ==
    LET f == stack[Len(stack)]
    IN /\ pc' = f.pc
       /\ export_i' = f.export_i
       /\ total' = f.total
       /\ success_count' = f.success_count
       /\ error_count' = f.error_count
       /\ dir_writable' = f.dir_writable
       /\ batch_files' = f.batch_files
       /\ attempted' = f.attempted
       /\ written' = f.written
       /\ stack' = SubSeq(stack, 1, Len(stack) - 1)

\* what a handler that ends in update_preview leaves in the widgets
Previewed(r) ==
    /\ preview_size' = r.preview_size
    /\ wm_shown' = r.wm_shown
    /\ last_position' = r.last_position

ApplyPreview(list, cur, lp, color, text, ov) ==
    Previewed(update_preview(list, cur, preview_size, wm_shown, lp, color,
                             text, ov))

\* add_images_to_list, one path (add_files, add_folder, dropEvent)
AddImage(f) ==
    /\ UserEvent
    /\ Len(image_list) < MaxFiles
    /\ image_list' = Append(image_list, f)
    /\ IF current_row = 0
       THEN /\ current_row' = 1
            /\ ApplyPreview(image_list', 1, last_position, current_color,
                             is_text, overlay)
       ELSE UNCHANGED <<current_row, preview_size, wm_shown, last_position>>
    /\ UNCHANGED <<settings, window_closed, export_state, drag_canvas,
                   template_files, fun_vars>>

\* clear_list
ClearList ==
    /\ UserEvent
    /\ image_list' = <<>>
    /\ current_row' = 0
    /\ wm_shown' = FALSE
    /\ UNCHANGED <<preview_size, last_position, settings, window_closed,
                   export_state, drag_canvas, template_files,
                   fun_vars>>

\* itemClicked -> on_image_selected
SelectImage(i) ==
    /\ UserEvent
    /\ i \in 1..Len(image_list)
    /\ current_row' = i
    /\ ApplyPreview(image_list, i, last_position, current_color, is_text,
                    overlay)
    /\ UNCHANGED <<image_list, settings, window_closed, export_state,
                   drag_canvas, template_files,
                   fun_vars>>

\* DraggableWatermarkLabel.mouseMoveEvent -> on_watermark_position_changed
Drag(p) ==
    /\ UserEvent
    /\ wm_shown
    /\ last_position' = custom_position(p[1], p[2])
    /\ drag_canvas' = preview_size
    /\ UNCHANGED <<image_list, current_row, preview_size, wm_shown, settings,
                   window_closed, export_state, template_files,
                   fun_vars>>

\* a preset button -> set_watermark_position
PresetClick(k) ==
    /\ UserEvent
    /\ ApplyPreview(image_list, current_row, <<k>>, current_color, is_text,
                    overlay)
    /\ drag_canvas' = NoSize
    /\ UNCHANGED <<image_list, current_row, settings, window_closed,
                   export_state, template_files,
                   fun_vars>>

\* text_watermark_radio toggled -> on_watermark_type_changed
ToggleTextWatermark ==
    /\ UserEvent
    /\ is_text' = ~is_text
    /\ ApplyPreview(image_list, current_row, last_position, current_color,
                    is_text', overlay)
    /\ UNCHANGED <<image_list, current_row, output_format, naming, overlay,
                   current_color, window_closed, export_state, drag_canvas,
                   template_files, fun_vars>>

\* watermark_image_btn clicked -> choose_watermark_image; the button is in
\* image_watermark_group, which on_watermark_type_changed enables when the
\* text box is not checked
ChooseWatermarkImage(o) ==
    /\ UserEvent
    /\ ~is_text
    /\ o # overlay
    /\ overlay' = o
    /\ ApplyPreview(image_list, current_row, last_position, current_color,
                    is_text, o)
    /\ UNCHANGED <<image_list, current_row, is_text, output_format, naming,
                   current_color, window_closed, export_state, drag_canvas,
                   template_files, fun_vars>>

\* output_format_combo.setCurrentIndex by the user
SetOutputFormat(fmt) ==
    /\ UserEvent
    /\ fmt # output_format
    /\ output_format' = fmt
    /\ UNCHANGED <<image_list, current_row, preview_size, wm_shown,
                   last_position, is_text, naming, overlay, current_color,
                   window_closed, export_state, drag_canvas, template_files,
                   fun_vars>>

\* color_btn clicked -> choose_color; the button is in
\* text_watermark_group, which on_watermark_type_changed enables when the
\* text box is checked.  The colour dialog gives a colour (picked) or is
\* cancelled.  With current_color unset QColor(...) raises in the slot,
\* which the binding either reports and goes on from or ends the process
\* on.
ChooseColor(picked, aborts) ==
    /\ UserEvent
    /\ is_text
    /\ IF current_color = ColorUnset
       THEN /\ pc' = IF aborts THEN "aborted" ELSE pc
            /\ UNCHANGED <<current_color, preview_size, wm_shown,
                           last_position>>
       ELSE /\ ~aborts
            /\ pc' = pc
            /\ IF picked
               THEN /\ current_color' = picked_color
                    /\ ApplyPreview(image_list, current_row, last_position,
                                    picked_color, is_text, overlay)
               ELSE UNCHANGED <<current_color, preview_size, wm_shown,
                                last_position>>
    /\ UNCHANGED <<image_list, current_row, is_text, output_format, naming,
                   overlay, window_closed, batch_vars, status, rendered,
                   render_canvas, closed_at, stack, drag_canvas,
                   template_files, fun_vars>>

\* keep_name_radio (1), add_prefix_radio (2) or add_suffix_radio (3)
\* toggled -> on_naming_rule_changed
ToggleNaming(k) ==
    /\ UserEvent
    /\ naming' = [naming EXCEPT ![k] = ~@]
    /\ UNCHANGED <<image_list, current_row, preview_size, wm_shown,
                   last_position, is_text, output_format, overlay,
                   current_color, window_closed, export_state, drag_canvas,
                   template_files, fun_vars>>

\* set_watermark_position(template['position']) when the template has a
\* position, after the preview update r of on_watermark_type_changed
template_position(t, r, color, text, ov) ==
    IF t.has_position
    THEN update_preview(image_list, current_row, r.preview_size, r.wm_shown,
                        t.position, color, text, ov)
    ELSE r

\* the radio buttons of the template, then on_watermark_type_changed with
\* the colour and the overlay path of before, then the colour, the
\* overlay path and the position of the template
template_type(t, color, text, ov) ==
    template_position(t,
        IF t.watermark_type = None
        THEN [preview_size |-> preview_size, wm_shown |-> wm_shown,
              last_position |-> last_position]
        ELSE update_preview(image_list, current_row, preview_size, wm_shown,
                            last_position, current_color, text, overlay),
        color, text, ov)

\* the files of template_list that save_template wrote
SavedTemplates == {template_files[i] : i \in DOMAIN template_files}

\* load_template up to its message box: the check boxes, the colour, the
\* overlay path and the position of the template, each preview update in
\* its turn
LoadTemplate(t) ==
    /\ UserEvent
    /\ Len(stack) < MaxNesting
    /\ is_text' = IF t.watermark_type = None THEN is_text
                  ELSE t.watermark_type = "text"
    /\ current_color' = IF t.color = None THEN current_color ELSE t.color
    /\ overlay' = IF t.path = None THEN overlay ELSE t.path
    /\ Previewed(template_type(t, current_color', is_text', overlay'))
    /\ drag_canvas' = IF t.has_position THEN NoSize ELSE drag_canvas
    /\ Suspend
    /\ pc' = "template_box"
    /\ UNCHANGED <<image_list, current_row, output_format, naming,
                   window_closed, batch_vars, status, rendered,
                   render_canvas, closed_at, template_files,
                   fun_vars>>

\* the "template loaded" box is dismissed: update_preview, return
DismissTemplateBox ==
    /\ UNCHANGED events
    /\ pc = "template_box"
    /\ Resume
    /\ ApplyPreview(image_list, current_row, last_position, current_color,
                    is_text, overlay)
    /\ UNCHANGED <<image_list, current_row, settings, window_closed, status,
                   rendered, render_canvas, closed_at, drag_canvas,
                   template_files, fun_vars>>

\* save_template_btn clicked -> save_template.  The name dialog gives a
\* name (named) or is cancelled or left empty.  Building the template
\* reads current_color and last_position: with either unset the slot
\* raises, which the binding either reports and goes on from or ends the
\* process on.  The file is written (saved) or open raises; either way a
\* message box follows.  The model has one template name: a second save
\* overwrites the file of the first.
SaveTemplate(named, saved, aborts) ==
    /\ UserEvent
    /\ IF ~named
       THEN /\ ~saved
            /\ ~aborts
            /\ UNCHANGED <<pc, stack, template_files>>
       ELSE IF current_color = ColorUnset \/ last_position = Unset
       THEN /\ ~saved
            /\ pc' = IF aborts THEN "aborted" ELSE pc
            /\ UNCHANGED <<stack, template_files>>
       ELSE /\ ~aborts
            /\ Len(stack) < MaxNesting
            /\ template_files' =
                   IF saved
                   THEN <<template_of(is_text, overlay, current_color,
                                      last_position)>>
                   ELSE template_files
            /\ Suspend
            /\ pc' = "notice_box"
    /\ UNCHANGED <<image_list, current_row, preview_size, wm_shown,
                   last_position, settings, window_closed, batch_vars,
                   status, rendered, render_canvas, closed_at, drag_canvas,
                   fun_vars>>

\* delete_template_btn clicked -> delete_template, with the file that
\* save_template wrote selected in template_list.  The question box is
\* answered Yes (yes) or No; the file is unlinked (unlinked) or unlink
\* raises; either way a message box follows.
DeleteTemplate(yes, unlinked) ==
    /\ UserEvent
    /\ template_files # <<>>
    /\ IF ~yes
       THEN /\ ~unlinked
            /\ UNCHANGED <<pc, stack, template_files>>
       ELSE /\ Len(stack) < MaxNesting
            /\ template_files' = IF unlinked THEN <<>> ELSE template_files
            /\ Suspend
            /\ pc' = "notice_box"
    /\ UNCHANGED <<image_list, current_row, preview_size, wm_shown,
                   last_position, settings, window_closed, batch_vars,
                   status, rendered, render_canvas, closed_at, drag_canvas,
                   fun_vars>>

\* the message box of save_template or delete_template is dismissed:
\* return
DismissNotice ==
    /\ UNCHANGED events
    /\ pc = "notice_box"
    /\ Resume
    /\ UNCHANGED <<image_list, current_row, preview_size, wm_shown,
                   last_position, settings, window_closed, status, rendered,
                   render_canvas, closed_at, drag_canvas, template_files,
                   fun_vars>>

\* closeEvent: save_settings, event.accept().  With current_color or
\* last_position unset save_settings raises; the exception leaves a Qt
\* virtual method, which the binding either reports and goes on from (the
\* close event is accepted as it was created) or ends the process on.
CloseWindow(aborts) ==
    /\ UserEvent
    /\ aborts => (current_color = ColorUnset \/ last_position = Unset)
    /\ window_closed' = TRUE
    /\ closed_at' = IF pc = "exporting" THEN Len(attempted) ELSE NotClosed
    /\ pc' = IF aborts THEN "aborted" ELSE pc
    /\ UNCHANGED <<image_list, current_row, preview_size, wm_shown,
                   last_position, settings, batch_vars, status, rendered,
                   render_canvas, drag_canvas, stack, template_files,
                   fun_vars>>

(***************************************************************************)
(* WatermarkApp._apply_watermark, with _apply_text_watermark and           *)
(* _apply_image_watermark: the mode of the returned image, the placement   *)
(* it resolved and the value it leaves in self.last_position.              *)
(***************************************************************************)
NoRender == [file |-> "", renderer |-> "none", mode_in |-> "", mode_out |-> "",
             rule |-> NoSize, canvas |-> NoSize, xy |-> NoSize]

\* the renderer, given the placement pos it resolves when it comes to it
render_watermark(f, lp, text, ov, psize, mode_in, pos) ==
    IF lp = Unset /\ (text \/ ov = "ok")
    THEN \* self.last_position raises AttributeError
         [raised |-> TRUE, last_position |-> lp, rendered |-> NoRender]
    ELSE IF text
    THEN [raised |-> FALSE, last_position |-> pos.last_position,
          rendered |-> [file |-> f, renderer |-> "text",
                        mode_in |-> mode_in, mode_out |-> "RGBA",
                        rule |-> lp, canvas |-> psize, xy |-> pos.xy]]
    ELSE IF ov = "missing"
    THEN [raised |-> FALSE, last_position |-> lp,
          rendered |-> [file |-> f, renderer |-> "image_noop",
                        mode_in |-> mode_in, mode_out |-> "RGBA",
                        rule |-> NoSize, canvas |-> NoSize, xy |-> NoSize]]
    ELSE IF ov = "unreadable"
    THEN \* Image.open(watermark_image_path) raises
         [raised |-> TRUE, last_position |-> lp, rendered |-> NoRender]
    ELSE [raised |-> FALSE, last_position |-> pos.last_position,
          rendered |-> [file |-> f, renderer |-> "image",
                        mode_in |-> mode_in, mode_out |-> "RGBA",
                        rule |-> lp, canvas |-> psize, xy |-> pos.xy]]

\* if img.mode != 'RGBA': img = img.convert('RGBA'), then the renderer
apply_watermark(f, lp, text, ov, psize) ==
    render_watermark(f, lp, text, ov, psize, FileInfo(f).mode,
        calculate_watermark_position(lp, FileInfo(f).size[1],
            FileInfo(f).size[2], WmSize[1], WmSize[2], margin_value,
            psize[1], psize[2]))

\* modes the JPEG encoder of Image.save accepts
JpegModes == {"L", "RGB", "CMYK"}

(***************************************************************************)
(* WatermarkApp._process_and_save_image: whether it raised, the file it    *)
(* saved, and what the renderer did.                                       *)
(***************************************************************************)
\* img.save of the image wm the renderer returned, under output_filename
save_image(f, fmt, writable, output_filename, wm) ==
    LET \* output_filename.lower().endswith('.png'): the name ends with the
        \* extension _get_output_filename gave it
        as_png == OutputExt(fmt) = ".png"
        \* save(..., 'PNG') takes every mode; save(..., 'JPEG') raises
        \* "cannot write mode RGBA as JPEG"
        save_ok == writable /\ (as_png \/ wm.rendered.mode_out \in JpegModes)
    IN IF wm.raised
       THEN [raised |-> TRUE, last_position |-> wm.last_position,
             rendered |-> NoRender, saved |-> <<>>]
       ELSE [raised |-> ~save_ok, last_position |-> wm.last_position,
             rendered |-> wm.rendered,
             saved |-> IF save_ok
                       THEN <<[src |-> f, name |-> output_filename,
                               mode |-> wm.rendered.mode_out]>>
                       ELSE <<>>]

process_and_save_image(f, lp, text, ov, fmt, nm, psize, writable) ==
    IF ~FileInfo(f).decodes
    THEN \* Image.open(image_path) raises
         [raised |-> TRUE, last_position |-> lp, rendered |-> NoRender,
          saved |-> <<>>]
    ELSE save_image(f, fmt, writable,
             get_output_filename(FileInfo(f).stem, FileInfo(f).ext, nm,
                                 prefix_text, suffix_text, fmt),
             apply_watermark(f, lp, text, ov, psize))

(***************************************************************************)
(* WatermarkApp.export_images.  The loop body calls                        *)
(* QApplication.processEvents() after showing "i+1/total", so user events  *)
(* are handled between two files: the loop is one action per iteration.    *)
(***************************************************************************)
\* the export button is enabled (the list holds an item), a directory is
\* chosen, the loop is entered; clicked while a batch is dispatching
\* events, the new batch runs inside that one
ExportStart(writable) ==
    /\ UserEvent
    /\ Len(image_list) > 0
    /\ Len(stack) < MaxNesting
    /\ Suspend
    /\ pc' = "exporting"
    /\ dir_writable' = writable
    /\ total' = Len(image_list)
    /\ success_count' = 0
    /\ error_count' = 0
    /\ export_i' = 0
    /\ status' = 1
    /\ batch_files' = image_list
    /\ attempted' = <<>>
    /\ written' = <<>>
    /\ UNCHANGED <<image_list, current_row, preview_size, wm_shown,
                   last_position, settings, window_closed, rendered,
                   render_canvas, closed_at, drag_canvas, template_files,
                   fun_vars>>

\* what the try block of the loop body does with the outcome r of
\* _process_and_save_image for the item f
Processed(f, r) ==
    /\ attempted' = Append(attempted, f)
    /\ last_position' = r.last_position
    /\ rendered' = r.rendered
    /\ render_canvas' = IF r.rendered.renderer \in {"text", "image"}
                        THEN drag_canvas ELSE NoSize
    /\ written' = written \o r.saved
    /\ success_count' = IF r.raised THEN success_count ELSE success_count + 1
    /\ error_count' = IF r.raised THEN error_count + 1 ELSE error_count

\* the rest of iteration export_i, then the status message of the next
\* iteration or, after the last one, the result box
ExportFile ==
    /\ UNCHANGED events
    /\ pc = "exporting"
    /\ IF export_i + 1 <= Len(image_list)
       THEN Processed(image_list[export_i + 1],
                process_and_save_image(image_list[export_i + 1],
                    last_position, is_text, overlay, output_format, naming,
                    preview_size, dir_writable))
       ELSE \* item(i) is None: continue
            UNCHANGED <<attempted, last_position, rendered, written,
                        render_canvas, success_count, error_count>>
    /\ IF export_i + 1 < total
       THEN /\ export_i' = export_i + 1
            /\ status' = export_i + 2
            /\ pc' = "exporting"
       ELSE /\ export_i' = total
            /\ status' = 0
            /\ pc' = "report"
    /\ UNCHANGED <<image_list, current_row, preview_size, wm_shown, settings,
                   window_closed, total, dir_writable, batch_files,
                   drag_canvas, closed_at, stack, template_files,
                   fun_vars>>

\* the "export finished" message box is dismissed and export_images
\* returns to the event loop it was called from: the idle window, or a
\* batch that was suspended and now goes on
DismissReport ==
    /\ UNCHANGED events
    /\ pc = "report"
    /\ Resume
    /\ LET outer == stack[Len(stack)]
       IN /\ closed_at' = IF outer.pc = "exporting" /\ window_closed
                          THEN Len(outer.attempted) ELSE NotClosed
          /\ IF outer.pc = "idle"
             THEN rendered' = NoRender /\ render_canvas' = NoSize
             ELSE UNCHANGED <<rendered, render_canvas>>
    /\ UNCHANGED <<image_list, current_row, preview_size, wm_shown,
                   last_position, settings, window_closed, status,
                   drag_canvas, template_files,
                   fun_vars>>

(***************************************************************************)
(* The pure functions applied to drawn inputs                              *)
(***************************************************************************)
\* stored preview points of the custom positions
PosPoints == {<<-8, 20>>, <<200, 150>>, <<900, 700>>, <<600, 49>>}

\* custom strings a configuration file or a template can hold: int()
\* takes a sign, blanks around the digits, leading zeros and the decimal
\* digits of every script ('custom_\u0663_\uff15\uff10' is the point
\* (3, 50), 'custom_\u0969_\u06f5' the point (3, 5)), and does not take a
\* coordinate that begins with U+001C
custom_plus5_3 == <<"custom", <<"+", "5">>, <<"3">>>>
custom_007_blank7 == <<"custom", <<"0", "0", "7">>, <<" ", "7">>>>
custom_arabic_fullwidth == <<"custom", <<"<0663>">>, <<"<ff15>", "<ff10>">>>>
custom_devanagari_persian == <<"custom", <<"<0969>">>, <<"<06f5>">>>>
custom_separator5_3 == <<"custom", <<"<1c>", "5">>, <<"3">>>>

\* str(2 ** 1024), the least power of two that is no double, and
\* str(2 ** 1023), the largest that is one
two_pow_1024 ==
    <<"1", "7", "9", "7", "6", "9", "3", "1", "3", "4", "8", "6", "2", "3",
      "1", "5", "9", "0", "7", "7", "2", "9", "3", "0", "5", "1", "9", "0",
      "7", "8", "9", "0", "2", "4", "7", "3", "3", "6", "1", "7", "9", "7",
      "6", "9", "7", "8", "9", "4", "2", "3", "0", "6", "5", "7", "2", "7",
      "3", "4", "3", "0", "0", "8", "1", "1", "5", "7", "7", "3", "2", "6",
      "7", "5", "8", "0", "5", "5", "0", "0", "9", "6", "3", "1", "3", "2",
      "7", "0", "8", "4", "7", "7", "3", "2", "2", "4", "0", "7", "5", "3",
      "6", "0", "2", "1", "1", "2", "0", "1", "1", "3", "8", "7", "9", "8",
      "7", "1", "3", "9", "3", "3", "5", "7", "6", "5", "8", "7", "8", "9",
      "7", "6", "8", "8", "1", "4", "4", "1", "6", "6", "2", "2", "4", "9",
      "2", "8", "4", "7", "4", "3", "0", "6", "3", "9", "4", "7", "4", "1",
      "2", "4", "3", "7", "7", "7", "6", "7", "8", "9", "3", "4", "2", "4",
      "8", "6", "5", "4", "8", "5", "2", "7", "6", "3", "0", "2", "2", "1",
      "9", "6", "0", "1", "2", "4", "6", "0", "9", "4", "1", "1", "9", "4",
      "5", "3", "0", "8", "2", "9", "5", "2", "0", "8", "5", "0", "0", "5",
      "7", "6", "8", "8", "3", "8", "1", "5", "0", "6", "8", "2", "3", "4",
      "2", "4", "6", "2", "8", "8", "1", "4", "7", "3", "9", "1", "3", "1",
      "1", "0", "5", "4", "0", "8", "2", "7", "2", "3", "7", "1", "6", "3",
      "3", "5", "0", "5", "1", "0", "6", "8", "4", "5", "8", "6", "2", "9",
      "8", "2", "3", "9", "9", "4", "7", "2", "4", "5", "9", "3", "8", "4",
      "7", "9", "7", "1", "6", "3", "0", "4", "8", "3", "5", "3", "5", "6",
      "3", "2", "9", "6", "2", "4", "2", "2", "4", "1", "3", "7", "2", "1",
      "6">>

two_pow_1023 ==
    <<"8", "9", "8", "8", "4", "6", "5", "6", "7", "4", "3", "1", "1", "5",
      "7", "9", "5", "3", "8", "6", "4", "6", "5", "2", "5", "9", "5", "3",
      "9", "4", "5", "1", "2", "3", "6", "6", "8", "0", "8", "9", "8", "8",
      "4", "8", "9", "4", "7", "1", "1", "5", "3", "2", "8", "6", "3", "6",
      "7", "1", "5", "0", "4", "0", "5", "7", "8", "8", "6", "6", "3", "3",
      "7", "9", "0", "2", "7", "5", "0", "4", "8", "1", "5", "6", "6", "3",
      "5", "4", "2", "3", "8", "6", "6", "1", "2", "0", "3", "7", "6", "8",
      "0", "1", "0", "5", "6", "0", "0", "5", "6", "9", "3", "9", "9", "3",
      "5", "6", "9", "6", "6", "7", "8", "8", "2", "9", "3", "9", "4", "8",
      "8", "4", "4", "0", "7", "2", "0", "8", "3", "1", "1", "2", "4", "6",
      "4", "2", "3", "7", "1", "5", "3", "1", "9", "7", "3", "7", "0", "6",
      "2", "1", "8", "8", "8", "8", "3", "9", "4", "6", "7", "1", "2", "4",
      "3", "2", "7", "4", "2", "6", "3", "8", "1", "5", "1", "1", "0", "9",
      "8", "0", "0", "6", "2", "3", "0", "4", "7", "0", "5", "9", "7", "2",
      "6", "5", "4", "1", "4", "7", "6", "0", "4", "2", "5", "0", "2", "8",
      "8", "4", "4", "1", "9", "0", "7", "5", "3", "4", "1", "1", "7", "1",
      "2", "3", "1", "4", "4", "0", "7", "3", "6", "9", "5", "6", "5", "5",
      "5", "2", "7", "0", "4", "1", "3", "6", "1", "8", "5", "8", "1", "6",
      "7", "5", "2", "5", "5", "3", "4", "2", "2", "9", "3", "1", "4", "9",
      "1", "1", "9", "9", "7", "3", "6", "2", "2", "9", "6", "9", "2", "3",
      "9", "8", "5", "8", "1", "5", "2", "4", "1", "7", "6", "7", "8", "1",
      "6", "4", "8", "1", "2", "1", "1", "2", "0", "6", "8", "6", "0", "8">>

\* custom strings whose x is an integer float() does not take, or takes
\* and gives inf when it is multiplied by a scale of 2
FarRules == {<<"custom", two_pow_1024, str(150)>>,
             <<"custom", two_pow_1023, str(150)>>}

\* values of self.last_position: the presets, custom points, a custom
\* string whose coordinates are no integers, a key that is no preset
PosRules == {<<k>> : k \in PresetKeys}
              \cup {custom_position(p[1], p[2]) : p \in PosPoints}
              \cup {custom_x_y, <<"middle">>, custom_plus5_3,
                    custom_007_blank7, custom_arabic_fullwidth,
                    custom_devanagari_persian, custom_separator5_3}

PosInputs ==
    [lp : PosRules, W : {800, 50, 1001}, H : {600, 30},
     w : {100, 57, 38}, h : {40, 45, 18}, m : {0, 12},
     pw : {0, 400, 800, 600}, ph : {0, 300, 600}]
    \cup [lp : FarRules, W : {800, 50}, H : {600}, w : {57, 38}, h : {40},
          m : {0, 12}, pw : {400}, ph : {300}]

NoPosIn == [lp |-> <<"br">>, W |-> 0, H |-> 0, w |-> 0, h |-> 0, m |-> 0,
            pw |-> 0, ph |-> 0]
NoPosOut == [gui_done |-> FALSE, gui |-> NoSize, lp_after |-> NoSize,
             cli_done |-> FALSE, cli |-> NoSize]

\* self._calculate_watermark_position(img_width, img_height, wm_width,
\* wm_height, margin) with self.last_position = lp
ResolveGui ==
    /\ ~pos_out.gui_done
    /\ LET a == pos_in
           r == calculate_watermark_position(a.lp, a.W, a.H, a.w, a.h, a.m,
                                             a.pw, a.ph)
       IN pos_out' = [pos_out EXCEPT !.gui_done = TRUE, !.gui = r.xy,
                                     !.lp_after = r.last_position]
    /\ UNCHANGED <<not_pos, pos_in>>

\* compute_position(img.size, (text_w, text_h), options.position,
\* options.margin); --position takes the five preset keys only
ResolveCli ==
    /\ ~pos_out.cli_done
    /\ Len(pos_in.lp) = 1
    /\ pos_in.lp[1] \in PresetKeys
    /\ LET a == pos_in
       IN pos_out' = [pos_out EXCEPT !.cli_done = TRUE,
                         !.cli = compute_position(a.W, a.H, a.w, a.h,
                                                  a.lp[1], a.m)]
    /\ UNCHANGED <<not_pos, pos_in>>

NameInputs == [stem : {"photo", "IMG_0001"}, ext : {".jpg", ".png", ".tiff"},
               nm : BOOLEAN \X BOOLEAN \X BOOLEAN,
               prefix : {"wm_", ""}, suffix : {"_watermarked", "-x"},
               fmt : OutputFormats]

NoNameIn == [stem |-> "", ext |-> "", nm |-> default_naming, prefix |-> "",
             suffix |-> "", fmt |-> FormatJPEG]
NoNameOut == [done |-> FALSE, name |-> ""]

\* self._get_output_filename(image_path)
GetOutputFilename ==
    /\ ~name_out.done
    /\ LET a == name_in
       IN name_out' = [done |-> TRUE,
                       name |-> get_output_filename(a.stem, a.ext, a.nm,
                                    a.prefix, a.suffix, a.fmt)]
    /\ UNCHANGED <<not_name, name_in>>

(***************************************************************************)
(* extract_exif_date of the CLI.  A text is the sequence of its characters. *)
(* The metadata block is what image.getexif() returns: a value, or none,   *)
(* for each capture-date tag.                                              *)
(***************************************************************************)
EXIF_TAG_DATETIME == 306
EXIF_TAG_DATETIME_ORIGINAL == 36867
EXIF_TAG_DATETIME_DIGITIZED == 36868

TagIds == {EXIF_TAG_DATETIME, EXIF_TAG_DATETIME_ORIGINAL,
           EXIF_TAG_DATETIME_DIGITIZED}

\* a tag order that tries DateTime first
DateTagOrder_datetime_first ==
    <<EXIF_TAG_DATETIME, EXIF_TAG_DATETIME_ORIGINAL,
      EXIF_TAG_DATETIME_DIGITIZED>>

\* for tag in (EXIF_TAG_DATETIME_ORIGINAL, EXIF_TAG_DATETIME_DIGITIZED,
\*             EXIF_TAG_DATETIME)
DateTagOrder ==
    <<EXIF_TAG_DATETIME_ORIGINAL, EXIF_TAG_DATETIME_DIGITIZED,
      EXIF_TAG_DATETIME>>

\* s.split(" "): the fields between single spaces, empty fields included
RECURSIVE split_space(_)
split_space(s) ==
    IF \E i \in 1..Len(s) : s[i] = " "
    THEN LET i == CHOOSE k \in 1..Len(s) :
                      s[k] = " " /\ \A j \in 1..(k - 1) : s[j] # " "
         IN <<SubSeq(s, 1, i - 1)>> \o split_space(SubSeq(s, i + 1, Len(s)))
    ELSE <<s>>

\* s.replace(old, new) for single characters
replace(s, old, new) ==
    [i \in 1..Len(s) |-> IF s[i] = old THEN new ELSE s[i]]

\* value.decode("utf-8", errors="ignore")
decode(b) == SelectSeq(b, LAMBDA c : c # InvalidByte)

\* values of exif.get(tag): None, a str, a bytes, or another type
AbsentTag == [kind |-> "absent", chars |-> <<>>, num |-> 0]
StrValue(t) == [kind |-> "str", chars |-> t, num |-> 0]
BytesValue(t) == [kind |-> "bytes", chars |-> t, num |-> 0]
IntValue(n) == [kind |-> "int", chars |-> <<>>, num |-> n]

\* not value
Falsy(v) ==
    \/ v.kind = "absent"
    \/ v.kind \in {"str", "bytes"} /\ v.chars = <<>>
    \/ v.kind = "int" /\ v.num = 0

\* Optional[str]
NoDate == [some |-> FALSE, text |-> <<>>]
SomeDate(t) == [some |-> TRUE, text |-> t]

\* the for loop of extract_exif_date from the k-th tag on; the strptime
\* validation is left out: its exception is swallowed and date_str is
\* returned either way
RECURSIVE extract_loop(_, _)
extract_loop(exif, k) ==
    IF k > Len(DateTagOrder)
    THEN NoDate
    ELSE LET value == exif[DateTagOrder[k]]
             text == IF value.kind = "bytes" THEN decode(value.chars)
                     ELSE value.chars
             parts == split_space(strip(text))
         IN IF Falsy(value)
            THEN extract_loop(exif, k + 1)
            ELSE IF value.kind \in {"str", "bytes"}
            THEN SomeDate(replace(parts[1], ":", "-"))
            ELSE extract_loop(exif, k + 1)

extract_exif_date(image) ==
    IF ~image.exif_readable
    THEN NoDate                       \* image.getexif() raised
    ELSE IF \A t \in TagIds : image.exif[t].kind = "absent"
    THEN NoDate                       \* not exif
    ELSE extract_loop(image.exif, 1)

\* tag values of the model
TextFull ==
    <<"2", "0", "2", "3", ":", "1", "1", ":", "0", "5", " ", "1", "4", ":",
    "2", "2", ":", "1", "0">>
TextHyphen ==
    <<"2", "0", "2", "1", "-", "0", "3", "-", "0", "4">>
TextPadded ==
    <<" ", " ", "2", "0", "2", "0", ":", "0", "1", ":", "0", "2", " ", " ",
    "0", "3", ":", "0", "4", ":", "0", "5", " ">>
TextTab ==
    <<"2", "0", "2", "2", ":", "0", "7", ":", "0", "8", "\t", "0", "9",
    ":", "1", "0", ":", "1", "1">>
TextOdd ==
    <<"2", "0", "x", "x", ":", "1", "3", ":", "9", "9", " ", "n", "o", "o",
    "n">>
TextBlank ==
    <<" ">>
TextReturn ==
    <<"\r", "2", "0", "1", "8", ":", "0", "6", ":", "0", "7", "\r", "\n">>
TextBytes ==
    <<"2", "0", "1", "9", ":", "1", "2", ":", "3", "1", InvalidByte, " ",
    "2", "3", ":", "5", "9", ":", "5", "9">>

ExifValues ==
    {AbsentTag, StrValue(<<>>), IntValue(5),
     StrValue(TextFull), StrValue(TextHyphen), StrValue(TextPadded),
     StrValue(TextTab), StrValue(TextOdd), StrValue(TextBlank),
     StrValue(TextReturn),
     BytesValue(TextBytes)}

ExifInputs == [exif_readable : BOOLEAN, exif : [TagIds -> ExifValues]]

NoExifIn == [exif_readable |-> TRUE, exif |-> [t \in TagIds |-> AbsentTag]]
NoExifOut == [done |-> FALSE, date |-> NoDate]

\* date_text = extract_exif_date(im)
ExtractExifDate ==
    /\ ~exif_out.done
    /\ exif_out' = [done |-> TRUE, date |-> extract_exif_date(exif_in)]
    /\ UNCHANGED <<not_exif, exif_in>>

(***************************************************************************)
(* WatermarkApp._apply_image_watermark on pixels.  A raster is its size    *)
(* and its RGBA pixels, <<r, g, b, a>> at <<column, row>> counted from 0.  *)
(***************************************************************************)
Coords(size) == (0..(size[1] - 1)) \X (0..(size[2] - 1))

\* the base image _apply_watermark hands over, already RGBA
BaseKinds == {"opaque", "alpha"}
BaseRaster(kind) ==
    [size |-> <<3, 2>>,
     px |-> [c \in Coords(<<3, 2>>) |->
               <<10 * (c[1] + 1), 20 * (c[2] + 1), 7,
                 IF kind = "opaque" THEN 255 ELSE 100 + c[1]>>]]

\* what wm_img.resize(...).convert('RGBA') holds at <<i, j>>: the outcome
\* of the resampling is given with the overlay, as one of three patterns
OverlayPatterns == {"opaque", "mixed", "clear"}
ResizedPixel(pattern, i, j) ==
    <<250 - 10 * i, 240 - 20 * j, 90,
      CASE pattern = "opaque" -> 255
        [] pattern = "clear" -> 0
        [] pattern = "mixed" -> <<0, 128, 255>>[((i + j) % 3) + 1]>>

\* a.point that leaves the alpha channel as it is
alpha_point_unscaled(a, opacity) == a

\* a.point(lambda x: int(x * opacity / 100))
alpha_point(a, opacity) == (a * opacity) \div 100

\* int(wm_img.width * scale) with scale = slider value / 100
ScaledSide(side, percent) == FloatScaleTrunc(side, percent, 100)

\* DIV255 and BLEND of the paste of Image.paste(im, box, mask)
DIV255(a) == LET tmp == a + 128 IN ((tmp \div 256) + tmp) \div 256

\* a blend that leaves the destination as it is
BLEND_keep(mask, in1, in2) == in1

BLEND(mask, in1, in2) == DIV255(in1 * (255 - mask) + in2 * mask)

\* result.paste(wm_img, (x, y), wm_img): inside the box, clipped to the
\* destination, each band is blended with the alpha band of wm_img as mask
paste_mask(dst, wm, x, y) ==
    [size |-> dst.size,
     px |-> [c \in Coords(dst.size) |->
               IF /\ x <= c[1] /\ c[1] < x + wm.size[1]
                  /\ y <= c[2] /\ c[2] < y + wm.size[2]
               THEN LET src == wm.px[<<c[1] - x, c[2] - y>>]
                    IN [k \in 1..4 |-> BLEND(src[4], dst.px[c][k], src[k])]
               ELSE dst.px[c]]]

\* a target that is the base image itself
new_result_in_place(img) == [raster |-> img, is_base |-> TRUE]

\* result = Image.new('RGBA', img.size, (255, 255, 255, 0));
\* result.paste(img, (0, 0)): a new raster with the pixels of img
new_result(img) == [raster |-> img, is_base |-> FALSE]

NoRaster == [size |-> <<0, 0>>, px |-> <<>>]

\* _apply_image_watermark(img) from the position pos it resolved on: the
\* new result image, the paste at pos, the return
paste_at(img, wm_img, pos) ==
    LET target == new_result(img)
        result == paste_mask(target.raster, wm_img, pos.xy[1], pos.xy[2])
    IN [raised |-> FALSE, returned |-> result,
        img_after |-> IF target.is_base THEN result ELSE img,
        xy |-> pos.xy, wm_size |-> wm_img.size,
        last_position |-> pos.last_position]

\* _apply_image_watermark(img) from the scaled sides on: whether it raised,
\* the raster it returns, the raster img holds afterwards,
\* self.last_position afterwards.  The position is resolved once, before
\* the paste.
resize_and_paste(img, ov, wm_width, wm_height, opacity, lp, m, pw, ph) ==
    LET wm_size == <<wm_width, wm_height>>
        wm_img == [size |-> wm_size,
                   px |-> [c \in Coords(wm_size) |->
                       LET p == ResizedPixel(ov.pattern, c[1], c[2])
                       IN <<p[1], p[2], p[3], alpha_point(p[4], opacity)>>]]
    IN IF ov.status = "missing"
       THEN [raised |-> FALSE, returned |-> img, img_after |-> img,
             xy |-> NoSize, wm_size |-> NoSize, last_position |-> lp]
       ELSE IF ov.status = "unreadable"
       THEN \* Image.open(watermark_image_path) raises
            [raised |-> TRUE, returned |-> NoRaster, img_after |-> img,
             xy |-> NoSize, wm_size |-> NoSize, last_position |-> lp]
       ELSE IF wm_width < 1 \/ wm_height < 1
       THEN \* resize raises ValueError: height and width must be > 0
            [raised |-> TRUE, returned |-> NoRaster, img_after |-> img,
             xy |-> NoSize, wm_size |-> NoSize, last_position |-> lp]
       ELSE CHOOSE r \in
                {paste_at(img, wm_img, pos) :
                    pos \in {calculate_watermark_position(lp, img.size[1],
                                 img.size[2], wm_width, wm_height, m, pw,
                                 ph)}} : TRUE

\* _apply_image_watermark(img)
apply_image_watermark(img, ov, percent, opacity, lp, m, pw, ph) ==
    resize_and_paste(img, ov, ScaledSide(ov.size[1], percent),
                     ScaledSide(ov.size[2], percent), opacity, lp, m, pw, ph)

PixRules == {<<"tl">>, <<"br">>, <<"center">>, custom_position(1, 1),
             custom_position(-8, 20), custom_position(320, 240)}

PixInputs ==
    [base : BaseKinds,
     ov : [status : {"missing", "unreadable", "ok"},
           size : {<<2, 2>>, <<4, 2>>}, pattern : OverlayPatterns],
     percent : {10, 50, 100}, opacity : {0, 50, 100},
     lp : PixRules, m : {0, 1}]

NoPixIn == [base |-> "opaque",
            ov |-> [status |-> "missing", size |-> <<2, 2>>,
                    pattern |-> "opaque"],
            percent |-> 50, opacity |-> 100, lp |-> <<"br">>, m |-> 0]
NoPixOut == [done |-> FALSE, raised |-> FALSE, returned |-> NoRaster,
             img_after |-> NoRaster, xy |-> NoSize, wm_size |-> NoSize,
             last_position |-> NoSize]

\* self._apply_image_watermark(img), the preview canvas being the one
\* preview_label has
ApplyImageWatermark ==
    /\ ~pix_out.done
    /\ LET a == pix_in
           img == BaseRaster(a.base)
           r == apply_image_watermark(img, a.ov, a.percent, a.opacity, a.lp,
                                      a.m, preview_size[1], preview_size[2])
       IN pix_out' = [done |-> TRUE, raised |-> r.raised,
                      returned |-> r.returned, img_after |-> r.img_after,
                      xy |-> r.xy, wm_size |-> r.wm_size,
                      last_position |-> r.last_position]
    /\ UNCHANGED <<not_pix, pix_in>>

(***************************************************************************)
(* The CLI: main, iter_image_files, ensure_output_dir, process_image_file. *)
(* A path is the sequence of its components.                               *)
(***************************************************************************)
\* Path.name, Path.parent, Path / name; Path('.') has no component, the
\* root is the component ""
PathName(path) == IF path \in {<<>>, <<"">>} THEN "" ELSE path[Len(path)]
PathParent(path) ==
    IF path \in {<<>>, <<"">>} THEN path ELSE SubSeq(path, 1, Len(path) - 1)
PathJoin(path, name) == Append(path, name)

SUPPORTED_EXTENSIONS ==
    {<<".", "j", "p", "g">>,
     <<".", "j", "p", "e", "g">>,
     <<".", "p", "n", "g">>,
     <<".", "t", "i", "f">>,
     <<".", "t", "i", "f", "f">>,
     <<".", "w", "e", "b", "p">>}

\* str.lower() of one character: the cased characters of file suffixes
UpperChars ==
    <<"A", "B", "C", "D", "E", "F", "G", "H", "I", "J", "K", "L", "M", "N",
      "O", "P", "Q", "R", "S", "T", "U", "V", "W", "X", "Y", "Z">>
LowerChars ==
    <<"a", "b", "c", "d", "e", "f", "g", "h", "i", "j", "k", "l", "m", "n",
      "o", "p", "q", "r", "s", "t", "u", "v", "w", "x", "y", "z">>
lower(c) ==
    IF \E i \in 1..Len(UpperChars) : UpperChars[i] = c
    THEN LowerChars[CHOOSE i \in 1..Len(UpperChars) : UpperChars[i] = c]
    ELSE c

\* path.suffix.lower()
SuffixLower(suffix) == [i \in 1..Len(suffix) |-> lower(suffix[i])]

\* metadata whose only capture-date tag is DateTimeOriginal
ExifOriginal(v) ==
    [exif_readable |-> TRUE,
     exif |-> [t \in TagIds |->
                 IF t = EXIF_TAG_DATETIME_ORIGINAL THEN v ELSE AbsentTag]]

\* the directory entries of the model in the order sorted() gives them
EntryOrder == <<"a.png", "b.jpg", "c.jpg", "d.JPG", "e.bmp", "f.jpg">>
EntryNames == {EntryOrder[k] : k \in 1..Len(EntryOrder)}

EntryInfo(n) ==
    CASE n = "a.png" -> [suffix |-> <<".", "p", "n", "g">>,
                         is_file |-> TRUE, decodes |-> TRUE,
                         mode |-> "RGBA", meta |-> NoExifIn]
      [] n = "b.jpg" -> [suffix |-> <<".", "j", "p", "g">>,
                         is_file |-> TRUE, decodes |-> TRUE,
                         mode |-> "RGB",
                         meta |-> ExifOriginal(StrValue(TextFull))]
      [] n = "c.jpg" -> [suffix |-> <<".", "j", "p", "g">>,
                         is_file |-> TRUE, decodes |-> FALSE,
                         mode |-> None, meta |-> NoExifIn]
      [] n = "d.JPG" -> [suffix |-> <<".", "J", "P", "G">>,
                         is_file |-> TRUE, decodes |-> TRUE,
                         mode |-> "RGB",
                         meta |-> ExifOriginal(StrValue(TextBlank))]
      [] n = "e.bmp" -> [suffix |-> <<".", "b", "m", "p">>,
                         is_file |-> TRUE, decodes |-> TRUE,
                         mode |-> "RGB",
                         meta |-> ExifOriginal(StrValue(TextFull))]
      [] n = "f.jpg" -> [suffix |-> <<".", "j", "p", "g">>,
                         is_file |-> FALSE,
                         decodes |-> FALSE, mode |-> None, meta |-> NoExifIn]

\* directories the input is in: an absolute one, a relative one, the
\* current directory (a bare file name)
SourceDirs == {<<"", "pics", "trip">>, <<"trip">>, <<>>}

\* the output directory before the run: it can be created, it exists, it
\* exists and cannot be written, or mkdir fails (its parent cannot be
\* written, or a regular file has its name)
DestStates == {"creatable", "exists", "readonly", "blocked"}

\* the runs of the model: input_path is missing, is the entry `arg` of the
\* directory `dir`, or is `dir` itself, which holds `entries`
CliInputs ==
    [kind : {"missing"}, dir : SourceDirs, arg : {"b.jpg"}, entries : {{}},
     dest : {"creatable"}]
    \cup [kind : {"file"}, dir : SourceDirs, arg : EntryNames \ {"f.jpg"},
          entries : {EntryNames}, dest : DestStates]
    \cup [kind : {"dir"}, dir : SourceDirs, arg : {""},
          entries : SUBSET EntryNames, dest : DestStates]

\* list(iter_image_files(input_path)), as entry names
RECURSIVE SortedSupported(_, _)
SortedSupported(entries, k) ==
    IF k > Len(EntryOrder)
    THEN <<>>
    ELSE LET n == EntryOrder[k]
             rest == SortedSupported(entries, k + 1)
         IN IF n \in entries /\ EntryInfo(n).is_file
                /\ SuffixLower(EntryInfo(n).suffix) \in SUPPORTED_EXTENSIONS
            THEN <<n>> \o rest
            ELSE rest

iter_image_files(in) ==
    IF in.kind = "file"
    THEN IF SuffixLower(EntryInfo(in.arg).suffix) \in SUPPORTED_EXTENSIONS
         THEN <<in.arg>> ELSE <<>>
    ELSE IF in.kind = "dir"
    THEN SortedSupported(in.entries, 1)
    ELSE <<>>

\* the input path of a run
InputPath(in) == IF in.kind = "dir" THEN in.dir ELSE PathJoin(in.dir, in.arg)

\* path.is_file() on the file system of a run
is_file(in, path) ==
    /\ in.kind # "missing"
    /\ path # <<>>
    /\ PathParent(path) = in.dir
    /\ PathName(path) \in (IF in.kind = "file" THEN EntryNames ELSE in.entries)
    /\ EntryInfo(PathName(path)).is_file

\* ensure_output_dir(base): parent = base.parent if base.is_file() else
\* base; out_dir = parent / f"{parent.name}_watermark"
ensure_output_dir(base, base_is_file) ==
    LET parent == IF base_is_file THEN PathParent(base) ELSE base
    IN PathJoin(parent, PathName(parent) \o "_watermark")

\* draw_watermark: the text drawn and the mode of the returned image
\* (img.convert(image.mode))
draw_watermark(mode, text) == [text |-> text, mode |-> mode]

\* process_image_file that saves a file without a date unmarked
process_image_file_keep_undated(n, out_dir, dest) ==
    LET info == EntryInfo(n)
        date_text == extract_exif_date(info.meta)
    IN IF ~info.decodes \/ dest = "readonly"
       THEN [log |-> "ERROR", saved |-> <<>>]
       ELSE [log |-> IF ~date_text.some \/ date_text.text = <<>>
                     THEN "SKIP" ELSE "OK",
             saved |-> <<[src |-> n, path |-> PathJoin(out_dir, n),
                          drawn |-> draw_watermark(info.mode, date_text.text)]>>]

\* process_image_file(image_path, options, out_dir): the message it prints
\* and the file it saves
process_image_file(n, out_dir, dest) ==
    LET info == EntryInfo(n)
        date_text == extract_exif_date(info.meta)
    IN IF ~info.decodes
       THEN [log |-> "ERROR", saved |-> <<>>]     \* Image.open raises
       ELSE IF ~date_text.some \/ date_text.text = <<>>
       THEN [log |-> "SKIP", saved |-> <<>>]      \* if not date_text
       ELSE IF dest = "readonly"
       THEN [log |-> "ERROR", saved |-> <<>>]     \* save raises
       ELSE [log |-> "OK",
             saved |-> <<[src |-> n, path |-> PathJoin(out_dir, n),
                          drawn |-> draw_watermark(info.mode, date_text.text)]>>]

\* main has not returned
NoExit == 0 - 1

NoCliIn == [kind |-> "missing", dir |-> <<"trip">>, arg |-> "b.jpg",
            entries |-> {}, dest |-> "creatable"]
CliStartState == [pc |-> "start", files |-> <<>>, i |-> 0, out_dir |-> NoSize,
                  made |-> {}, outputs |-> <<>>, log |-> <<>>,
                  exit |-> NoExit]

\* main up to the for loop: the two checks, then ensure_output_dir
CliMain ==
    /\ cli.pc = "start"
    /\ LET files == iter_image_files(cli_in)
           input_path == InputPath(cli_in)
           \* input_path if input_path.is_dir() else input_path.parent
           base == IF cli_in.kind = "dir" THEN input_path
                   ELSE PathParent(input_path)
           out_dir == ensure_output_dir(base, is_file(cli_in, base))
       IN cli' =
            IF cli_in.kind = "missing"
            THEN [cli EXCEPT !.pc = "done", !.exit = 1]
            ELSE IF files = <<>>
            THEN [cli EXCEPT !.pc = "done", !.exit = 1, !.files = files]
            ELSE IF cli_in.dest = "blocked"
            THEN \* out_dir.mkdir raises: main does not return
                 [cli EXCEPT !.pc = "raised", !.files = files]
            ELSE [cli EXCEPT !.pc = "loop", !.files = files, !.i = 1,
                             !.out_dir = out_dir,
                             !.made = IF cli_in.dest = "creatable"
                                      THEN {out_dir} ELSE {}]
    /\ UNCHANGED <<not_cli, cli_in>>

\* one iteration of `for f in files`, and `return 0` after the last one
CliProcessFile ==
    /\ cli.pc = "loop"
    /\ LET r == process_image_file(cli.files[cli.i], cli.out_dir, cli_in.dest)
           last == cli.i = Len(cli.files)
       IN cli' = [cli EXCEPT !.log = Append(@, [kind |-> r.log,
                                                file |-> cli.files[cli.i]]),
                             !.outputs = @ \o r.saved,
                             !.i = @ + 1,
                             !.pc = IF last THEN "done" ELSE "loop",
                             !.exit = IF last THEN 0 ELSE NoExit]
    /\ UNCHANGED <<not_cli, cli_in>>

(***************************************************************************)
(* The text renderers: WatermarkApp._apply_watermark with                  *)
(* _apply_text_watermark, and draw_watermark of the CLI.  What a renderer  *)
(* does is the list of its draw.text calls, in order: where the text is    *)
(* drawn and the ink it is drawn in.                                       *)
(***************************************************************************)
\* opacity_slider.setRange(0, 100)
opacity_max == 100

\* values of font_size_spin (range 8..120) and of --font-size
FontSizes == {8, 47, 48, 120}

\* values of self.current_color and of --color: hex RGB, a colour name, hex
\* RGB with alpha, a string that is no colour
ColorStrings == {"#FFFFFF", "#3366CC", "red", "#FF000080", "notacolor"}

\* ImageColor.getrgb raised ValueError
NoColor == <<>>

\* ImageColor.getrgb(color): an (r, g, b) or (r, g, b, a) tuple
getrgb(color) ==
    CASE color = "#FFFFFF" -> <<255, 255, 255>>
      [] color = "#3366CC" -> <<51, 102, 204>>
      [] color = "red" -> <<255, 0, 0>>
      [] color = "#FF000080" -> <<255, 0, 0, 128>>
      [] OTHER -> NoColor

\* the ink draw.text uses on an RGBA image for a fill: a 3-tuple is opaque
ink(fill) == IF Len(fill) = 3 THEN fill \o <<255>> ELSE fill

\* the dispatch with each checked box calling its renderer
watermark_renderers_by_box(text_checked, image_checked) ==
    (IF text_checked THEN <<"text">> ELSE <<>>)
        \o (IF image_checked THEN <<"image">> ELSE <<>>)

\* _apply_watermark: the renderers it calls, in order
watermark_renderers(text_checked, image_checked) ==
    IF text_checked THEN <<"text">> ELSE <<"image">>

\* the text colour with the alpha left at 255
text_color_opaque(color, opacity) ==
    LET rgb == getrgb(color)
    IN IF Len(rgb) = 3
       THEN rgb \o <<255>>
       ELSE <<255, 255, 255, (255 * opacity) \div 100>>

\* text_color of _apply_text_watermark; the bare except also takes the
\* ValueError of unpacking a 4-tuple into r, g, b
text_color(color, opacity) ==
    LET rgb == getrgb(color)
    IN IF Len(rgb) = 3
       THEN rgb \o <<(255 * opacity) \div 100>>
       ELSE <<255, 255, 255, (255 * opacity) \div 100>>

\* the draw.text calls with the shadow alpha left at 160
apply_text_watermark_fixed_shadow(font_size, opacity, add_shadow, color, xy) ==
    LET shadow_offset == Max(1, font_size \div 24)
        shadow_color == <<0, 0, 0, 160>>
    IN (IF add_shadow
        THEN <<[at |-> <<xy[1] + shadow_offset, xy[2] + shadow_offset>>,
                ink |-> ink(shadow_color)]>>
        ELSE <<>>)
       \o <<[at |-> xy, ink |-> ink(text_color(color, opacity))]>>

\* the draw.text calls of _apply_text_watermark, in order
apply_text_watermark(font_size, opacity, add_shadow, color, xy) ==
    LET shadow_offset == Max(1, font_size \div 24)
        shadow_color == <<0, 0, 0, (160 * opacity) \div 100>>
    IN (IF add_shadow
        THEN <<[at |-> <<xy[1] + shadow_offset, xy[2] + shadow_offset>>,
                ink |-> ink(shadow_color)]>>
        ELSE <<>>)
       \o <<[at |-> xy, ink |-> ink(text_color(color, opacity))]>>

\* the draw.text calls of draw_watermark (CLI), in order: the shadow is
\* always drawn, and the fill is what getrgb returned
draw_watermark_calls(font_size, color, xy) ==
    LET rgb == getrgb(color)
        fill == IF rgb = NoColor THEN <<255, 255, 255>> ELSE rgb
        shadow_offset == Max(1, font_size \div 24)
        shadow_color == <<0, 0, 0, 160>>
    IN <<[at |-> <<xy[1] + shadow_offset, xy[2] + shadow_offset>>,
          ink |-> ink(shadow_color)],
         [at |-> xy, ink |-> ink(fill)]>>

\* size of the image the text is drawn on
DrawImageSize == <<800, 600>>

DrawRules == {<<"br">>, <<"tl">>, custom_position(200, 150)}

DrawInputs == [text_checked : BOOLEAN, image_checked : BOOLEAN,
               font_size : FontSizes, opacity : 0..opacity_max,
               add_shadow : BOOLEAN, color : ColorStrings, lp : DrawRules]

NoDrawIn == [text_checked |-> TRUE, image_checked |-> FALSE, font_size |-> 8,
             opacity |-> 0, add_shadow |-> TRUE, color |-> "#FFFFFF",
             lp |-> <<"br">>]
NoDrawOut == [gui_done |-> FALSE, renderers |-> <<>>, gui_xy |-> NoSize,
              gui |-> <<>>, cli_done |-> FALSE, cli_xy |-> NoSize,
              cli |-> <<>>]

\* self._apply_watermark(img) for the check boxes and text settings drawn,
\* at the position xy the renderer resolves.  The text renderer always
\* resolves it; the image renderer returns before it does when the
\* overlay path names no file, and raises before it does when the file
\* does not open.  What the image renderer draws is the subject of
\* apply_image_watermark.
ApplyWatermark ==
    /\ ~draw_out.gui_done
    /\ \E xy \in {calculate_watermark_position(draw_in.lp, DrawImageSize[1],
                     DrawImageSize[2], WmSize[1], WmSize[2], margin_value,
                     preview_size[1], preview_size[2]).xy} :
       LET a == draw_in
           called == watermark_renderers(a.text_checked, a.image_checked)
           drawn == LET TextDraws(j) ==
                            IF called[j] = "text"
                            THEN apply_text_watermark(a.font_size, a.opacity,
                                     a.add_shadow, a.color, xy)
                            ELSE <<>>
                    IN IF Len(called) = 1 THEN TextDraws(1)
                       ELSE IF Len(called) = 2
                       THEN TextDraws(1) \o TextDraws(2)
                       ELSE <<>>
       IN draw_out' = [draw_out EXCEPT !.gui_done = TRUE,
                                       !.renderers = called,
                                       !.gui_xy =
                                           IF called = <<"text">>
                                                  \/ overlay = "ok"
                                           THEN xy ELSE NoSize,
                                       !.gui = drawn]
    /\ UNCHANGED <<not_draw, draw_in>>

\* draw_watermark(im, date_text, options); --position takes the preset keys
DrawWatermark ==
    /\ ~draw_out.cli_done
    /\ Len(draw_in.lp) = 1
    /\ LET a == draw_in
           xy == compute_position(DrawImageSize[1], DrawImageSize[2],
                     WmSize[1], WmSize[2], a.lp[1], margin_value)
       IN draw_out' = [draw_out EXCEPT !.cli_done = TRUE,
                                       !.cli_xy = xy,
                                       !.cli = draw_watermark_calls(
                                                   a.font_size, a.color, xy)]
    /\ UNCHANGED <<not_draw, draw_in>>

(***************************************************************************)
(* The GUI after __init__: init_ui defaults, then load_last_settings.      *)
(***************************************************************************)
FunIdle ==
    /\ pos_in = NoPosIn
    /\ pos_out = NoPosOut
    /\ name_in = NoNameIn
    /\ name_out = NoNameOut
    /\ exif_in = NoExifIn
    /\ exif_out = NoExifOut
    /\ pix_in = NoPixIn
    /\ pix_out = NoPixOut
    /\ cli_in = NoCliIn
    /\ cli = CliStartState
    /\ draw_in = NoDrawIn
    /\ draw_out = NoDrawOut

AppDefaults ==
    /\ image_list = <<>>
    /\ current_row = 0
    /\ wm_shown = FALSE
    /\ dir_writable = TRUE
    /\ window_closed = FALSE
    /\ pc = "idle"
    /\ export_i = 0
    /\ total = 0
    /\ success_count = 0
    /\ error_count = 0
    /\ status = 0
    /\ batch_files = <<>>
    /\ attempted = <<>>
    /\ written = <<>>
    /\ rendered = NoRender
    /\ drag_canvas = NoSize
    /\ render_canvas = NoSize
    /\ closed_at = NotClosed
    /\ stack = <<>>
    /\ events = 0
    /\ template_files = <<>>

\* WatermarkApp(): init_ui, then load_last_settings on any configuration
\* file; the list is empty, so no preview is drawn and preview_label has
\* the size the layout gave it
Init ==
    /\ AppDefaults
    /\ preview_size \in StartPreviewSizes
    /\ \E config \in ConfigFiles :
          /\ is_text = config.is_text
          /\ overlay = config.overlay
          /\ last_position = config.last_position
          /\ current_color = config.current_color
          /\ output_format = config.output_format
          /\ naming = config.naming
    /\ FunIdle

\* WatermarkApp() with no configuration file, its window not shown
AppFresh ==
    /\ AppDefaults
    /\ preview_size = unshown_size
    /\ is_text = TRUE
    /\ overlay = "missing"
    /\ last_position = <<"br">>
    /\ current_color = default_color
    /\ output_format = FormatJPEG
    /\ naming = default_naming

PosIdle == pos_in = NoPosIn /\ pos_out = NoPosOut
NameIdle == name_in = NoNameIn /\ name_out = NoNameOut
ExifIdle == exif_in = NoExifIn /\ exif_out = NoExifOut
PixIdle == pix_in = NoPixIn /\ pix_out = NoPixOut
CliIdle == cli_in = NoCliIn /\ cli = CliStartState
DrawIdle == draw_in = NoDrawIn /\ draw_out = NoDrawOut

InitPos ==
    /\ AppFresh
    /\ pos_in \in PosInputs
    /\ pos_out = NoPosOut
    /\ NameIdle
    /\ ExifIdle
    /\ PixIdle
    /\ CliIdle
    /\ DrawIdle

NextPos ==
    \/ ResolveGui
    \/ ResolveCli

SpecPos == InitPos /\ [][NextPos]_vars

InitName ==
    /\ AppFresh
    /\ PosIdle
    /\ name_in \in NameInputs
    /\ name_out = NoNameOut
    /\ ExifIdle
    /\ PixIdle
    /\ CliIdle
    /\ DrawIdle

NextName == GetOutputFilename

SpecName == InitName /\ [][NextName]_vars

InitExif ==
    /\ AppFresh
    /\ PosIdle
    /\ NameIdle
    /\ exif_in \in ExifInputs
    /\ exif_out = NoExifOut
    /\ PixIdle
    /\ CliIdle
    /\ DrawIdle

NextExif == ExtractExifDate

SpecExif == InitExif /\ [][NextExif]_vars

InitPix ==
    /\ AppFresh
    /\ PosIdle
    /\ NameIdle
    /\ ExifIdle
    /\ pix_in \in PixInputs
    /\ pix_out = NoPixOut
    /\ CliIdle
    /\ DrawIdle

NextPix == ApplyImageWatermark

SpecPix == InitPix /\ [][NextPix]_vars

InitCli ==
    /\ AppFresh
    /\ PosIdle
    /\ NameIdle
    /\ ExifIdle
    /\ PixIdle
    /\ cli_in \in CliInputs
    /\ cli = CliStartState
    /\ DrawIdle

NextCli ==
    \/ CliMain
    \/ CliProcessFile

SpecCli == InitCli /\ [][NextCli]_vars

InitDraw ==
    /\ AppFresh
    /\ PosIdle
    /\ NameIdle
    /\ ExifIdle
    /\ PixIdle
    /\ CliIdle
    /\ draw_in \in DrawInputs
    /\ draw_out = NoDrawOut

NextDraw ==
    \/ ApplyWatermark
    \/ DrawWatermark

SpecDraw == InitDraw /\ [][NextDraw]_vars

Next ==
    \/ \E f \in Files : AddImage(f)
    \/ ClearList
    \/ \E i \in 1..MaxFiles : SelectImage(i)
    \/ \E p \in DragPoints : Drag(p)
    \/ \E k \in PresetKeys : PresetClick(k)
    \/ ToggleTextWatermark
    \/ \E o \in OverlayStates : ChooseWatermarkImage(o)
    \/ \E picked, aborts \in BOOLEAN : ChooseColor(picked, aborts)
    \/ \E fmt \in OutputFormats : SetOutputFormat(fmt)
    \/ \E k \in 1..3 : ToggleNaming(k)
    \/ \E t \in Templates \cup SavedTemplates : LoadTemplate(t)
    \/ DismissTemplateBox
    \/ \E named, saved, aborts \in BOOLEAN : SaveTemplate(named, saved, aborts)
    \/ \E yes, unlinked \in BOOLEAN : DeleteTemplate(yes, unlinked)
    \/ DismissNotice
    \/ \E aborts \in BOOLEAN : CloseWindow(aborts)
    \/ \E w \in BOOLEAN : ExportStart(w)
    \/ ExportFile
    \/ DismissReport

Spec == Init /\ [][Next]_vars

(***************************************************************************)
(* Properties                                                              *)
(***************************************************************************)
\* the files of the batch that decode, when the destination is writable
ShouldSucceed ==
    {i \in 1..Len(batch_files) : FileInfo(batch_files[i]).decodes /\ dir_writable}

\* C1: when the batch has ended, every file of the list was attempted once,
\* in list order; the files that decode and have a writable destination are
\* the ones counted as succeeded, every other file is counted as failed, and
\* succeeded + failed = number of files.
C1_BatchCounts ==
    pc = "report" =>
        /\ attempted = batch_files
        /\ success_count = Cardinality(ShouldSucceed)
        /\ error_count = Len(batch_files) - Cardinality(ShouldSucceed)
        /\ success_count + error_count = Len(batch_files)

\* the position the spec's anchor formulas give for a preset key
AnchorFormulaHolds(key, xy, W, H, w, h, m) ==
    CASE key = "tl" -> xy = <<m, m>>
      [] key = "tr" -> xy = <<W - w - m, m>>
      [] key = "bl" -> xy = <<m, H - h - m>>
      [] key = "br" -> xy = <<W - w - m, H - h - m>>
      [] key = "center" ->
            \* xy[1] = floor((W - w) / 2), xy[2] = floor((H - h) / 2)
            /\ 2 * xy[1] <= W - w /\ W - w <= 2 * xy[1] + 1
            /\ 2 * xy[2] <= H - h /\ H - h <= 2 * xy[2] + 1

PosIsPreset == Len(pos_in.lp) = 1 /\ pos_in.lp[1] \in PresetKeys

\* C2: for each of the five preset anchors and every (W,H,w,h,m), the GUI
\* resolver and the CLI compute_position both return the anchor formula's
\* position, and so agree.
C2_PresetFormulas ==
    PosIsPreset =>
        LET a == pos_in
        IN /\ pos_out.gui_done =>
                AnchorFormulaHolds(a.lp[1], pos_out.gui, a.W, a.H, a.w, a.h, a.m)
           /\ pos_out.cli_done =>
                AnchorFormulaHolds(a.lp[1], pos_out.cli, a.W, a.H, a.w, a.h, a.m)
           /\ (pos_out.gui_done /\ pos_out.cli_done) => pos_out.gui = pos_out.cli

\* C2 witness: W=800, H=600, w=100, h=40, m=12, BottomRight gives (688,548)
\* from both resolvers.
C2_Witness ==
    /\ pos_in = [lp |-> <<"br">>, W |-> 800, H |-> 600, w |-> 100, h |-> 40,
                 m |-> 12, pw |-> 800, ph |-> 600]
    /\ pos_out.gui_done /\ pos_out.cli_done
    /\ pos_out.gui = <<688, 548>>
    /\ pos_out.cli = <<688, 548>>

PosIsCustom == StartsWithCustom(pos_in.lp)

\* C3 as stated: for a Custom placement, whatever the stored point, the
\* resolved (x,y) satisfies 0 <= x <= W-w and 0 <= y <= H-h.
C3_CustomInsideAlways ==
    (pos_out.gui_done /\ PosIsCustom) =>
        /\ 0 <= pos_out.gui[1] /\ pos_out.gui[1] <= pos_in.W - pos_in.w
        /\ 0 <= pos_out.gui[2] /\ pos_out.gui[2] <= pos_in.H - pos_in.h

\* one axis of the amended C3: v is the resolved coordinate, t the stored
\* coordinate mapped to full resolution, hi = W-w (or H-h)
ClampedAxis(v, t, hi) ==
    /\ v >= 0
    /\ hi >= 0 => v <= hi
    /\ hi < 0 => v = 0
    /\ (~t.neg /\ ~PyLess(PyInt(hi), t)) => t = PyInt(v)
    /\ t.neg => v = 0
    /\ (PyLess(PyInt(hi), t) /\ hi >= 0) => v = hi

\* C3 amended: for a Custom placement whose transform runs to its end (the
\* stored point parses, the preview canvas has no zero dimension, and
\* neither coordinate nor its product with the scale leaves the range of
\* a float), the resolved x is never negative, is at most W-w whenever
\* w <= W, and is 0 when w > W; a point mapping outside [0, W-w] is moved
\* to the nearest boundary (the same for y, H, h).
C3_CustomClamped ==
    (pos_out.gui_done /\ PosIsCustom
        /\ CustomTryOk(pos_in.lp, pos_in.W, pos_in.H, pos_in.pw, pos_in.ph)) =>
        LET a == pos_in
            tx == ScaledCoord(IntOf(a.lp[2]), a.W, a.pw)
            ty == ScaledCoord(IntOf(a.lp[3]), a.H, a.ph)
        IN /\ ClampedAxis(pos_out.gui[1], tx, a.W - a.w)
           /\ ClampedAxis(pos_out.gui[2], ty, a.H - a.h)

\* C3 witness: the point (900,700) of an 800x600 canvas maps to (900,700)
\* on an 800x600 image, outside [0,700]x[0,560], and is resolved to the
\* boundary (700,560).
C3_Witness ==
    /\ pos_out.gui_done
    /\ pos_in.lp = custom_position(900, 700)
    /\ pos_in.W = 800 /\ pos_in.H = 600 /\ pos_in.w = 100 /\ pos_in.h = 40
    /\ pos_in.pw = 800 /\ pos_in.ph = 600
    /\ pos_out.gui = <<700, 560>>

\* the naming policy a state of the three check boxes selects when exactly
\* one of them is checked
ExpectedName(a) ==
    LET ext == IF a.fmt = FormatPNG THEN ".png" ELSE ".jpg"
    IN CASE a.nm = <<TRUE, FALSE, FALSE>> -> a.stem \o ext
         [] a.nm = <<FALSE, TRUE, FALSE>> -> a.prefix \o a.stem \o ext
         [] a.nm = <<FALSE, FALSE, TRUE>> -> a.stem \o a.suffix \o ext

OnePolicy == {<<TRUE, FALSE, FALSE>>, <<FALSE, TRUE, FALSE>>,
              <<FALSE, FALSE, TRUE>>}

\* C4: KeepOriginal gives stem+ext, AddPrefix(p) gives p+stem+ext,
\* AddSuffix(s) gives stem+s+ext, with ext '.png' for PNG and '.jpg' for
\* JPEG whatever the extension of the source file.
C4_OutputName ==
    (name_out.done /\ name_in.nm \in OnePolicy) =>
        name_out.name = ExpectedName(name_in)

\* C4 witness: stem 'photo' of a .png source, AddPrefix('wm_'), JPEG gives
\* 'wm_photo.jpg'.
C4_Witness ==
    /\ name_out.done
    /\ name_in.stem = "photo" /\ name_in.ext = ".png"
    /\ name_in.nm = <<FALSE, TRUE, FALSE>> /\ name_in.prefix = "wm_"
    /\ name_in.fmt = FormatJPEG
    /\ name_out.name = "wm_photo.jpg"

\* C5: a Custom placement resolved with a preview canvas dimension of zero
\* returns the BottomRight position (W-w-m, H-h-m) for the current margin.
C5_ZeroCanvasFallsBack ==
    (pos_out.gui_done /\ PosIsCustom /\ (pos_in.pw = 0 \/ pos_in.ph = 0)) =>
        pos_out.gui = <<pos_in.W - pos_in.w - pos_in.m,
                        pos_in.H - pos_in.h - pos_in.m>>

\* C5 witness: the point (200,150) resolved on a canvas of width 0 for an
\* 800x600 image, a 100x40 watermark and margin 12 gives (688,548).
C5_Witness ==
    /\ pos_out.gui_done
    /\ pos_in.lp = custom_position(200, 150)
    /\ pos_in.pw = 0 /\ pos_in.ph = 600
    /\ pos_in.W = 800 /\ pos_in.H = 600 /\ pos_in.w = 100 /\ pos_in.h = 40
    /\ pos_in.m = 12
    /\ pos_out.gui = <<688, 548>>

\* C6: a Custom placement captured by a drag is rescaled at export with the
\* preview canvas size in effect when it was dragged.
C6_CapturedCanvasUsed ==
    (rendered.renderer \in {"text", "image"} /\ StartsWithCustom(rendered.rule)
        /\ render_canvas # NoSize) =>
        rendered.canvas = render_canvas

\* C7: the text renderer returns the image in the mode the base image had.
C7_TextRendererKeepsMode ==
    rendered.renderer = "text" => rendered.mode_out = rendered.mode_in

\* C8: within one batch no two files are written to the same output name.
C8_UniqueOutputs ==
    \A i, j \in 1..Len(written) :
        i # j => written[i].name # written[j].name

\* C9: processing a file of the batch leaves the placement rule
\* (last_position) as it was.
C9_RuleUnchangedByBatch ==
    [][(pc = "exporting" /\ export_i' # export_i)
            => last_position' = last_position]_vars

\* C10: once the window was closed during a batch (the only request to stop
\* a user can make), no file beyond the one of the current iteration is
\* started.
C10_StopRequestObserved ==
    closed_at # NotClosed => Len(attempted) <= closed_at + 1

\* C11: the progress signal "N of total" is shown only after file N has been
\* processed: while the status bar shows N, at least N files have been handed
\* to _process_and_save_image and have returned.
C11_ProgressAfterFile ==
    status > 0 => Len(attempted) >= status

\* a tag is present when it holds a text (str or bytes) that is not empty
HoldsText(v) == v.kind \in {"str", "bytes"} /\ v.chars # <<>>

\* the text a present tag holds
TextOf(v) == IF v.kind = "bytes" THEN decode(v.chars) ELSE v.chars

\* the tag of highest priority that is present, 0 when there is none
FirstPresentTag(exif) ==
    IF HoldsText(exif[EXIF_TAG_DATETIME_ORIGINAL])
    THEN EXIF_TAG_DATETIME_ORIGINAL
    ELSE IF HoldsText(exif[EXIF_TAG_DATETIME_DIGITIZED])
    THEN EXIF_TAG_DATETIME_DIGITIZED
    ELSE IF HoldsText(exif[EXIF_TAG_DATETIME])
    THEN EXIF_TAG_DATETIME
    ELSE 0

\* the first whitespace-delimited token of a text: its characters after the
\* leading whitespace, up to the next whitespace character
RECURSIVE UpToWhitespace(_)
UpToWhitespace(t) ==
    IF t = <<>> \/ Head(t) \in Whitespace
    THEN <<>>
    ELSE <<Head(t)>> \o UpToWhitespace(Tail(t))

FirstToken(t) == UpToWhitespace(lstrip(t))

Hyphenated(t) == [i \in 1..Len(t) |-> IF t[i] = ":" THEN "-" ELSE t[i]]

\* C12: extract returns the first whitespace-delimited token of the first
\* present capture-date tag with every ':' replaced by '-', whether or not
\* the token is a date, and returns no value when no tag is present or the
\* metadata block cannot be read.
C12_ExtractDate ==
    exif_out.done =>
        LET tag == FirstPresentTag(exif_in.exif)
            token == FirstToken(TextOf(exif_in.exif[tag]))
        IN IF ~exif_in.exif_readable \/ tag = 0
           THEN exif_out.date = NoDate
           ELSE token # <<>> => exif_out.date = SomeDate(Hyphenated(token))

\* the metadata block with every tag but one removed
OnlyTag(exif, tag) == [t \in TagIds |-> IF t = tag THEN exif[t] ELSE AbsentTag]

\* C13: when several capture-date tags are present, extract returns what it
\* returns for the tag of highest priority alone, in the order
\* DateTimeOriginal, DateTimeDigitized, DateTime: a tag of lower priority
\* has no part in the result.
C13_TagPriority ==
    (exif_out.done /\ exif_in.exif_readable
        /\ FirstPresentTag(exif_in.exif) # 0) =>
        exif_out.date =
            extract_exif_date([exif_readable |-> TRUE,
                exif |-> OnlyTag(exif_in.exif,
                                 FirstPresentTag(exif_in.exif))])

\* C13 witness: DateTimeOriginal '2021-03-04', DateTimeDigitized
\* '20xx:13:99 noon' and DateTime '2023:11:05 14:22:10' give '2021-03-04'.
C13_Witness ==
    /\ exif_out.done
    /\ exif_in.exif_readable
    /\ exif_in.exif[EXIF_TAG_DATETIME_ORIGINAL] = StrValue(TextHyphen)
    /\ exif_in.exif[EXIF_TAG_DATETIME_DIGITIZED] = StrValue(TextOdd)
    /\ exif_in.exif[EXIF_TAG_DATETIME] = StrValue(TextFull)
    /\ exif_out.date = SomeDate(TextHyphen)

\* the supported image files the input path yields: the file itself, or the
\* regular files of the directory, with a supported extension in any case
YieldedFiles ==
    LET supported(n) ==
            /\ EntryInfo(n).is_file
            /\ SuffixLower(EntryInfo(n).suffix) \in SUPPORTED_EXTENSIONS
    IN IF cli_in.kind = "file" THEN {n \in {cli_in.arg} : supported(n)}
       ELSE IF cli_in.kind = "dir" THEN {n \in cli_in.entries : supported(n)}
       ELSE {}

\* C14: when main has ended, the exit code is 1 if the input path does not
\* exist or yields no supported image file, and then no directory was
\* created and no file processed; in every other case main returned 0.
C14_ExitCodes ==
    cli.pc \in {"done", "raised"} =>
        IF cli_in.kind = "missing" \/ YieldedFiles = {}
        THEN /\ cli.exit = 1
             /\ cli.made = {}
             /\ cli.log = <<>>
             /\ cli.outputs = <<>>
        ELSE cli.exit = 0

\* C15: the output directory is '<name of D>_watermark' in the parent of the
\* source directory D, it is created when absent, and every output file is
\* in it under the name of its input.
C15_SiblingOutputDir ==
    cli.out_dir # NoSize =>
        /\ cli.out_dir = PathJoin(PathParent(cli_in.dir),
                                  PathName(cli_in.dir) \o "_watermark")
        /\ cli_in.dest = "creatable" => cli.out_dir \in cli.made
        /\ \A k \in 1..Len(cli.outputs) :
              cli.outputs[k].path = PathJoin(cli.out_dir, cli.outputs[k].src)

\* a file that opens and for which extract yields no value
Undated(n) ==
    EntryInfo(n).decodes /\ extract_exif_date(EntryInfo(n).meta) = NoDate

\* C16: a file for which extract yields no date gets the message SKIP, not
\* ERROR, no output file is written for it, every output file carries a
\* date and no placeholder, and the files after it are processed: each file
\* of the list has its message when main returns.
C16_UndatedSkipped ==
    /\ \A k \in 1..Len(cli.log) :
          Undated(cli.log[k].file) =>
            /\ cli.log[k].kind = "SKIP"
            /\ \A j \in 1..Len(cli.outputs) :
                  cli.outputs[j].src # cli.log[k].file
    /\ \A j \in 1..Len(cli.outputs) : cli.outputs[j].drawn.text # <<>>
    /\ cli.exit = 0 =>
          /\ Len(cli.log) = Len(cli.files)
          /\ \A k \in 1..Len(cli.files) : cli.log[k].file = cli.files[k]

\* C16 witness: a directory with a.png (no capture date) and b.jpg (dated):
\* a.png is skipped, then b.jpg is written.
C16_Witness ==
    /\ cli.pc = "done"
    /\ cli.files = <<"a.png", "b.jpg">>
    /\ cli.log = <<[kind |-> "SKIP", file |-> "a.png"],
                   [kind |-> "OK", file |-> "b.jpg"]>>
    /\ Len(cli.outputs) = 1
    /\ cli.outputs[1].src = "b.jpg"

\* C17: a file that decodes, exported with the image watermark to a writable
\* directory as PNG while the overlay is missing or cannot be read, comes
\* back from the renderer unchanged and is not counted as failed.
C17_OverlayAbsentIsNoFailure ==
    [][(/\ pc = "exporting"
        /\ Len(attempted') = Len(attempted) + 1
        /\ ~is_text
        /\ overlay \in {"missing", "unreadable"}
        /\ FileInfo(image_list[export_i + 1]).decodes
        /\ dir_writable
        /\ ContainsPNG(output_format))
          => /\ rendered'.renderer = "image_noop"
             /\ error_count' = error_count
             /\ success_count' = success_count + 1]_vars

\* the renderer composited an overlay and returned an image
Composited ==
    pix_out.done /\ ~pix_out.raised /\ pix_in.ov.status = "ok"

\* the pixel <<column, row>> lies in the overlay footprint placed at xy
InFootprint(c) ==
    /\ pix_out.xy[1] <= c[1] /\ c[1] < pix_out.xy[1] + pix_out.wm_size[1]
    /\ pix_out.xy[2] <= c[2] /\ c[2] < pix_out.xy[2] + pix_out.wm_size[2]

\* C18: with opacity 0 the returned image equals the base image pixel for
\* pixel, whatever the overlay, its scale and its placement.
C18_ZeroOpacityIdentity ==
    (Composited /\ pix_in.opacity = 0) =>
        pix_out.returned = BaseRaster(pix_in.base)

\* C18 witness: an opaque 4x2 overlay at full size and opacity 0, anchored
\* top-left on the 3x2 base, leaves the base pixels.
C18_Witness ==
    /\ Composited
    /\ pix_in.opacity = 0
    /\ pix_in.ov.pattern = "opaque" /\ pix_in.ov.size = <<4, 2>>
    /\ pix_in.percent = 100
    /\ pix_in.lp = <<"tl">> /\ pix_in.m = 0
    /\ pix_out.xy = <<0, 0>>
    /\ pix_out.returned.px[<<0, 0>>] = <<10, 20, 7, 255>>

\* C19: with opacity 100 and an overlay whose alpha is 255 everywhere, each
\* pixel of the returned image inside the overlay footprint placed at (x,y)
\* is the overlay's pixel.
C19_FullOpacityExact ==
    (Composited /\ pix_in.opacity = 100 /\ pix_in.ov.pattern = "opaque") =>
        \A c \in Coords(pix_out.returned.size) :
            InFootprint(c) =>
                pix_out.returned.px[c] =
                    ResizedPixel("opaque", c[1] - pix_out.xy[1],
                                 c[2] - pix_out.xy[2])

\* C19 witness: an opaque 2x2 overlay at full size and opacity 100, anchored
\* bottom-right with margin 0, is at (1,0) and its pixel (0,0) is the pixel
\* (1,0) of the result.
C19_Witness ==
    /\ Composited
    /\ pix_in.opacity = 100
    /\ pix_in.ov.pattern = "opaque" /\ pix_in.ov.size = <<2, 2>>
    /\ pix_in.percent = 100
    /\ pix_in.lp = <<"br">> /\ pix_in.m = 0
    /\ pix_out.xy = <<1, 0>>
    /\ pix_out.returned.px[<<1, 0>>] = <<250, 240, 90, 255>>

\* C20: the base raster handed to the image renderer holds the same pixels
\* after the call, and the returned image has the size of the base and the
\* base pixel at every position outside the overlay footprint.
C20_BaseUnmodified ==
    (pix_out.done /\ ~pix_out.raised) =>
        /\ pix_out.img_after = BaseRaster(pix_in.base)
        /\ pix_out.returned.size = BaseRaster(pix_in.base).size
        /\ pix_in.ov.status = "ok" =>
              \A c \in Coords(pix_out.returned.size) :
                  ~InFootprint(c) =>
                      pix_out.returned.px[c] = BaseRaster(pix_in.base).px[c]

\* C20 witness: an opaque 2x2 overlay at half size and opacity 50, centred:
\* the pixel (1,0) of the result differs from the base, the base is as it
\* was.
C20_Witness ==
    /\ Composited
    /\ pix_in.opacity = 50
    /\ pix_in.ov.pattern = "opaque" /\ pix_in.ov.size = <<2, 2>>
    /\ pix_in.percent = 50
    /\ pix_in.lp = <<"center">>
    /\ pix_out.xy = <<1, 0>>
    /\ pix_out.returned.px[<<1, 0>>] # BaseRaster(pix_in.base).px[<<1, 0>>]
    /\ pix_out.returned.px[<<0, 0>>] = BaseRaster(pix_in.base).px[<<0, 0>>]
    /\ pix_out.img_after = BaseRaster(pix_in.base)

\* C21 as stated: for a Custom placement, a watermark wider than the image
\* is placed at x = 0 and a watermark taller than the image at y = 0, for
\* every stored preview point.
C21_OversizeAlwaysZero ==
    (pos_out.gui_done /\ PosIsCustom) =>
        /\ pos_in.w > pos_in.W => pos_out.gui[1] = 0
        /\ pos_in.h > pos_in.H => pos_out.gui[2] = 0

\* C21 amended: for a Custom placement whose transform runs to its end (the
\* stored point parses, the preview canvas has no zero dimension, and
\* neither coordinate nor its product with the scale leaves the range of
\* a float), a watermark wider than the image is placed at x = 0 and a
\* watermark taller than the image at y = 0, whatever the stored point.
C21_OversizeClampsToZero ==
    (pos_out.gui_done /\ PosIsCustom
        /\ CustomTryOk(pos_in.lp, pos_in.W, pos_in.H, pos_in.pw, pos_in.ph)) =>
        /\ pos_in.w > pos_in.W => pos_out.gui[1] = 0
        /\ pos_in.h > pos_in.H => pos_out.gui[2] = 0

\* C21 witness: the point (200,150) of a 400x300 canvas with a watermark
\* 57 wide on an image 50 wide and 600 high gives x = 0, y = 300.
C21_Witness ==
    /\ pos_out.gui_done
    /\ pos_in.lp = custom_position(200, 150)
    /\ pos_in.W = 50 /\ pos_in.w = 57 /\ pos_in.H = 600 /\ pos_in.h = 40
    /\ pos_in.pw = 400 /\ pos_in.ph = 300
    /\ pos_out.gui = <<0, 300>>

\* C22: for a Custom placement whose point is mapped to full resolution
\* and whose watermark is wider or taller than the image, the resolver
\* returns the BottomRight position (W-w-m, H-h-m).
C22_OversizeFallsBack ==
    (pos_out.gui_done /\ PosIsCustom
        /\ CustomTryOk(pos_in.lp, pos_in.W, pos_in.H, pos_in.pw, pos_in.ph)
        /\ (pos_in.w > pos_in.W \/ pos_in.h > pos_in.H)) =>
        pos_out.gui = <<pos_in.W - pos_in.w - pos_in.m,
                        pos_in.H - pos_in.h - pos_in.m>>

\* the decimal digits of half the number the digits ds denote: the
\* remainder a digit leaves is its parity
HalfDigits(ds) ==
    [i \in 1..Len(ds) |->
        DigitChars[(10 * (IF i = 1 THEN 0 ELSE DigitValue(ds[i - 1]) % 2)
                    + DigitValue(ds[i])) \div 2 + 1]]

\* the text of half the even integer a coordinate text denotes
HalfText(t) ==
    (IF Head(IntLiteral(t)) = "-" THEN <<"-">> ELSE <<>>)
        \o HalfDigits(IntDigits(t))

\* the coordinate text denotes an even integer
EvenText(t) == DigitValue(t[Len(t)]) % 2 = 0

\* the stored custom point with the listed axes halved
HalfPoint(lp, halve_x, halve_y) ==
    <<"custom", IF halve_x THEN HalfText(lp[2]) ELSE lp[2],
                IF halve_y THEN HalfText(lp[3]) ELSE lp[3]>>

\* the position resolved for the stored point and canvas with the listed
\* axes halved, the full size, watermark size and margin kept
ResolvedHalved(halve_x, halve_y) ==
    calculate_watermark_position(
        HalfPoint(pos_in.lp, halve_x, halve_y),
        pos_in.W, pos_in.H, pos_in.w, pos_in.h, pos_in.m,
        IF halve_x THEN pos_in.pw \div 2 ELSE pos_in.pw,
        IF halve_y THEN pos_in.ph \div 2 ELSE pos_in.ph).xy

\* the stored point is a pair of even integers (2a, 2b) and the canvas has
\* even dimensions
EvenCustom ==
    /\ PosIsCustom
    /\ PreviewParses(pos_in.lp)
    /\ EvenText(IntLiteral(pos_in.lp[2])) /\ EvenText(IntLiteral(pos_in.lp[3]))
    /\ pos_in.pw % 2 = 0 /\ pos_in.ph % 2 = 0

\* float(int(s)) does not raise OverflowError
FloatTakes(t) == ~IsInf(ToFloat(IntOf(t).mag))

\* C23 as stated: for a fixed full size, the stored point (2a, 2b) on a
\* canvas (pw, ph) and the point (a, b) on the canvas (pw/2, ph/2) resolve
\* to the same full-resolution point, whatever the point; the axes scale
\* independently, so halving the point and the canvas on one axis only
\* gives the same point too.
C23_ScaleLinearAlways ==
    (pos_out.gui_done /\ EvenCustom) =>
        /\ pos_out.gui = ResolvedHalved(TRUE, TRUE)
        /\ pos_out.gui = ResolvedHalved(TRUE, FALSE)
        /\ pos_out.gui = ResolvedHalved(FALSE, TRUE)

\* C23 amended: for a fixed full size and a stored point (2a, 2b) whose
\* coordinates float() takes (they round to a double below 2^1024), the
\* point on a canvas (pw, ph) and the point (a, b) on the canvas
\* (pw/2, ph/2) resolve to the same full-resolution point; the axes scale
\* independently (W/pw and H/ph), so halving the point and the canvas on
\* one axis only gives the same point too.
C23_ScaleLinear ==
    (pos_out.gui_done /\ EvenCustom
        /\ FloatTakes(pos_in.lp[2]) /\ FloatTakes(pos_in.lp[3])) =>
        /\ pos_out.gui = ResolvedHalved(TRUE, TRUE)
        /\ pos_out.gui = ResolvedHalved(TRUE, FALSE)
        /\ pos_out.gui = ResolvedHalved(FALSE, TRUE)

\* C23 witness: (200,150) on a 400x300 canvas and (100,75) on a 200x150
\* canvas both resolve to (400,300) of an 800x600 image.
C23_Witness ==
    /\ pos_out.gui_done
    /\ pos_in.lp = custom_position(200, 150)
    /\ pos_in.pw = 400 /\ pos_in.ph = 300
    /\ pos_in.W = 800 /\ pos_in.H = 600 /\ pos_in.w = 100 /\ pos_in.h = 40
    /\ pos_out.gui = <<400, 300>>
    /\ ResolvedHalved(TRUE, TRUE) = <<400, 300>>

\* (x, y) keeps a watermark of the given size entirely inside the image
InsideImage(xy) ==
    /\ 0 <= xy[1] /\ xy[1] <= pos_in.W - pos_in.w
    /\ 0 <= xy[2] /\ xy[2] <= pos_in.H - pos_in.h

\* C28: for a preset anchor with margin m >= 0, w + m <= W and h + m <= H,
\* the position resolved by either resolver satisfies 0 <= x <= W-w and
\* 0 <= y <= H-h.
C28_PresetInsideWhenFits ==
    (PosIsPreset /\ pos_in.m >= 0
        /\ pos_in.w + pos_in.m <= pos_in.W
        /\ pos_in.h + pos_in.m <= pos_in.H) =>
        /\ pos_out.gui_done => InsideImage(pos_out.gui)
        /\ pos_out.cli_done => InsideImage(pos_out.cli)

\* C28 witness: the boundary w + m = W, h + m = H (38+12 = 50, 18+12 = 30)
\* with BottomRight gives (0,0) from both resolvers.
C28_Witness ==
    /\ pos_in.lp = <<"br">>
    /\ pos_in.W = 50 /\ pos_in.H = 30 /\ pos_in.w = 38 /\ pos_in.h = 18
    /\ pos_in.m = 12
    /\ pos_out.gui_done /\ pos_out.cli_done
    /\ pos_out.gui = <<0, 0>> /\ pos_out.cli = <<0, 0>>

\* the one-box state of the policy that has priority among the checked
\* boxes: KeepOriginal, else AddPrefix, else AddSuffix, KeepOriginal when
\* no box is checked
PolicyByPriority(nm) ==
    IF nm[1] THEN <<TRUE, FALSE, FALSE>>
    ELSE IF nm[2] THEN <<FALSE, TRUE, FALSE>>
    ELSE IF nm[3] THEN <<FALSE, FALSE, TRUE>>
    ELSE <<TRUE, FALSE, FALSE>>

\* C29: for every combination of the three naming check boxes the output
\* name is the name of one policy, chosen by the priority KeepOriginal >
\* AddPrefix > AddSuffix and KeepOriginal when none is checked; a name
\* never carries both the prefix and the suffix.
C29_NamingPriority ==
    name_out.done =>
        name_out.name =
            ExpectedName([name_in EXCEPT !.nm = PolicyByPriority(name_in.nm)])

\* C29 witness: prefix and suffix boxes both checked, 'wm_' and
\* '_watermarked', stem 'photo', PNG: the name is 'wm_photo.png'.
C29_Witness ==
    /\ name_out.done
    /\ name_in.nm = <<FALSE, TRUE, TRUE>>
    /\ name_in.stem = "photo" /\ name_in.prefix = "wm_"
    /\ name_in.suffix = "_watermarked" /\ name_in.fmt = FormatPNG
    /\ name_out.name = "wm_photo.png"

\* a tag holds a text with a non-blank token
HoldsToken(v) == HoldsText(v) /\ FirstToken(TextOf(v)) # <<>>

\* C30: whenever one of the three capture-date tags of a readable metadata
\* block holds a text with a non-blank token, extract_exif_date returns a
\* non-empty text; it never returns the empty text, so a tag of higher
\* priority whose value is blank leaves the lower tags in use.
C30_NeverEmptyDate ==
    exif_out.done =>
        /\ exif_out.date # SomeDate(<<>>)
        /\ (exif_in.exif_readable
                /\ \E t \in TagIds : HoldsToken(exif_in.exif[t])) =>
            (exif_out.date.some /\ exif_out.date.text # <<>>)

\* C24: for every combination of the two watermark-type check boxes a file
\* is rendered by exactly one of the two renderers: the text renderer or
\* the image renderer, never both and never neither.
C24_ExactlyOneRenderer ==
    draw_out.gui_done =>
        /\ Len(draw_out.renderers) = 1
        /\ draw_out.renderers[1] \in {"text", "image"}

\* C24 witness: with both boxes checked the text renderer alone is called,
\* with neither checked the image renderer alone (second conjunct of the
\* formula); here both checked.
C24_Witness ==
    /\ draw_out.gui_done
    /\ draw_in.text_checked /\ draw_in.image_checked
    /\ draw_out.renderers = <<"text">>

\* the text renderer of the GUI has run
TextRendered == draw_out.gui_done /\ draw_out.renderers = <<"text">>

\* s = max(1, floor(fontSizePx / 24))
ShadowOffset == Max(1, draw_in.font_size \div 24)

\* C25: the shadow is drawn if and only if shadowEnabled is set; when drawn
\* it is drawn once, before the main text, at (x+s, y+s) in black with
\* alpha floor(160 * opacityPercent / 100).  The CLI renderer has neither
\* setting: it is the case shadowEnabled set, opacityPercent 100.
C25_ShadowDrawn ==
    /\ TextRendered =>
        LET xy == draw_out.gui_xy
            shadow == [at |-> <<xy[1] + ShadowOffset, xy[2] + ShadowOffset>>,
                       ink |-> <<0, 0, 0, (160 * draw_in.opacity) \div 100>>]
        IN IF draw_in.add_shadow
           THEN /\ Len(draw_out.gui) = 2
                /\ draw_out.gui[1] = shadow
                /\ draw_out.gui[2].at = xy
           ELSE /\ Len(draw_out.gui) = 1
                /\ draw_out.gui[1].at = xy
    /\ draw_out.cli_done =>
        LET xy == draw_out.cli_xy
        IN /\ Len(draw_out.cli) = 2
           /\ draw_out.cli[1] =
                [at |-> <<xy[1] + ShadowOffset, xy[2] + ShadowOffset>>,
                 ink |-> <<0, 0, 0, 160>>]
           /\ draw_out.cli[2].at = xy

\* C25 witness: font size 48, opacity 50, BottomRight (688,548): the shadow
\* is drawn first at (690,550) with alpha 80, the text second at (688,548).
C25_Witness ==
    /\ TextRendered
    /\ draw_in.add_shadow /\ draw_in.font_size = 48 /\ draw_in.opacity = 50
    /\ draw_in.lp = <<"br">>
    /\ draw_out.gui[1] = [at |-> <<690, 550>>, ink |-> <<0, 0, 0, 80>>]
    /\ draw_out.gui[2].at = <<688, 548>>

\* the last draw.text call of the GUI text renderer: the main text
MainText == draw_out.gui[Len(draw_out.gui)]

\* C26: the main text is drawn at the resolved (x, y) in colorRGB with
\* alpha floor(255 * opacityPercent / 100), for every opacityPercent in
\* 0..100: alpha 0 at 0 percent and 255 at 100 percent.
C26_MainTextAlpha ==
    (TextRendered /\ Len(getrgb(draw_in.color)) = 3) =>
        /\ MainText.at =
               calculate_watermark_position(draw_in.lp, DrawImageSize[1],
                   DrawImageSize[2], WmSize[1], WmSize[2], margin_value,
                   preview_size[1], preview_size[2]).xy
        /\ MainText.ink =
               getrgb(draw_in.color) \o <<(255 * draw_in.opacity) \div 100>>
        /\ draw_in.opacity = 0 => MainText.ink[4] = 0
        /\ draw_in.opacity = opacity_max => MainText.ink[4] = 255

\* C26 witness: colour '#3366CC' at opacity 50, BottomRight: the text is
\* drawn at (688,548) in (51,102,204) with alpha 127.
C26_Witness ==
    /\ TextRendered
    /\ draw_in.color = "#3366CC" /\ draw_in.opacity = 50
    /\ draw_in.lp = <<"br">>
    /\ MainText = [at |-> <<688, 548>>, ink |-> <<51, 102, 204, 127>>]

\* C27: when the colour string cannot be parsed the text is drawn in opaque
\* white, (255,255,255) with alpha 255, by both text renderers.
C27_UnparsedColorOpaqueWhite ==
    getrgb(draw_in.color) = NoColor =>
        /\ TextRendered => MainText.ink = <<255, 255, 255, 255>>
        /\ draw_out.cli_done => draw_out.cli[2].ink = <<255, 255, 255, 255>>

====
